---- MODULE Spec2Model ----
(***************************************************************************)
(* lazydash: ingestion of parsed Prometheus entries into the metric       *)
(* Registry (pkg/prometheus/parser.go, pkg/metrics), query and legend     *)
(* composition (pkg/query/promql.go) and dashboard layout                 *)
(* (pkg/grafana/dashboard.go, pkg/grafana/api.go).                        *)
(*                                                                         *)
(* Go strings are TLA+ strings; a character is a string of length one,    *)
(* and the strings package is modelled character by character.            *)
(***************************************************************************)
EXTENDS Integers, Sequences, FiniteSets, TLC

VARIABLES cfg, registry, nEntries, last, pc, panels, qmetric, qresult, heap, filtered,
          builder

vars == <<cfg, registry, nEntries, last, pc, panels, qmetric, qresult, heap, filtered,
         builder>>

(***************************************************************************)
(* Bounds of the model.                                                    *)
(***************************************************************************)
MaxEntries == 3

-----------------------------------------------------------------------------
(***************************************************************************)
(* Go's strings package and byte-wise string order.                        *)
(***************************************************************************)

\* The characters that occur in the model, in ascending byte order.
Alphabet == " ()0123456789:ABCDEFGHIJKLMNOPQRSTUVWXYZ[]_abcdefghijklmnopqrstuvwxyz{}"

CharAt(s, i) == SubSeq(s, i, i)

\* strings.Index from position i on: 1-based position of the first
\* occurrence of sub at or after i, 0 when absent.
RECURSIVE IndexFrom(_, _, _)
IndexFrom(s, sub, i) ==
    IF i + Len(sub) - 1 > Len(s) THEN 0
    ELSE IF SubSeq(s, i, i + Len(sub) - 1) = sub THEN i
    ELSE IndexFrom(s, sub, i + 1)

Index(s, sub) == IndexFrom(s, sub, 1)

Contains(s, sub) == \E i \in 1..(Len(s) - Len(sub) + 1) : SubSeq(s, i, i + Len(sub) - 1) = sub

AlphabetChars == {CharAt(Alphabet, i) : i \in 1..Len(Alphabet)}

\* The byte order of the characters, as a table.
OrdTable == [c \in AlphabetChars |-> Index(Alphabet, c)]

Ord(c) == OrdTable[c]

\* s < t in Go (byte-wise lexicographic order), as used by sort.Strings.
RECURSIVE LessFrom(_, _, _)
LessFrom(s, t, i) ==
    IF i > Len(t) THEN FALSE
    ELSE IF i > Len(s) THEN TRUE
    ELSE IF CharAt(s, i) = CharAt(t, i) THEN LessFrom(s, t, i + 1)
    ELSE Ord(CharAt(s, i)) < Ord(CharAt(t, i))

StrLess(s, t) == LessFrom(s, t, 1)

HasPrefix(s, p) == Len(s) >= Len(p) /\ SubSeq(s, 1, Len(p)) = p

HasSuffix(s, p) == Len(s) >= Len(p) /\ SubSeq(s, Len(s) - Len(p) + 1, Len(s)) = p

TrimPrefix(s, p) == IF HasPrefix(s, p) THEN SubSeq(s, Len(p) + 1, Len(s)) ELSE s

TrimSuffix(s, p) == IF HasSuffix(s, p) THEN SubSeq(s, 1, Len(s) - Len(p)) ELSE s

\* strings.Replace(s, old, new, 1), for a non-empty old.
ReplaceFirst(s, old, new) ==
    LET i == Index(s, old)
    IN  IF i = 0 THEN s
        ELSE SubSeq(s, 1, i - 1) \o new \o SubSeq(s, i + Len(old), Len(s))

\* strings.Replace(s, old, new, -1), for a non-empty old: non-overlapping
\* occurrences from the left, the replacement is not rescanned.
RECURSIVE ReplaceAll(_, _, _)
ReplaceAll(s, old, new) ==
    LET i == Index(s, old)
    IN  IF i = 0 THEN s
        ELSE SubSeq(s, 1, i - 1) \o new
               \o ReplaceAll(SubSeq(s, i + Len(old), Len(s)), old, new)

Upper == "ABCDEFGHIJKLMNOPQRSTUVWXYZ"
Lower == "abcdefghijklmnopqrstuvwxyz"

\* unicode.ToLower and unicode.ToUpper on the alphabet, as tables.
LowerTable ==
    [c \in AlphabetChars |->
        LET i == Index(Upper, c) IN IF i = 0 THEN c ELSE CharAt(Lower, i)]

UpperTable ==
    [c \in AlphabetChars |->
        LET i == Index(Lower, c) IN IF i = 0 THEN c ELSE CharAt(Upper, i)]

LowerChar(c) == LowerTable[c]

UpperChar(c) == UpperTable[c]

RECURSIVE LowerFrom(_, _)
LowerFrom(s, i) == IF i > Len(s) THEN "" ELSE LowerChar(CharAt(s, i)) \o LowerFrom(s, i + 1)

ToLower(s) == LowerFrom(s, 1)

\* strings.SplitN(s, "_", 2)[0]: the part of s before its first underscore.
FirstToken(s) ==
    LET i == Index(s, "_") IN IF i = 0 THEN s ELSE SubSeq(s, 1, i - 1)

RECURSIVE Join(_, _)
Join(parts, sep) ==
    IF Len(parts) = 0 THEN ""
    ELSE IF Len(parts) = 1 THEN parts[1]
    ELSE parts[1] \o sep \o Join(Tail(parts), sep)

\* sort.Strings over the members of a set: ascending byte-wise order.
RECURSIVE SortStrings(_)
SortStrings(S) ==
    IF S = {} THEN <<>>
    ELSE LET m == CHOOSE x \in S : \A y \in S \ {x} : StrLess(x, y)
         IN  <<m>> \o SortStrings(S \ {m})

-----------------------------------------------------------------------------
(***************************************************************************)
(* pkg/metrics: Metric and Registry.                                       *)
(***************************************************************************)

\* A nil pointer (nil *VendorConfig, nil *LabelGroupingConfig, nil *Metric).
Nil == [nil |-> TRUE]

\* metrics.New: a nil label map becomes an empty one.
New(name, help, labels, mtype, suffix, unit) ==
    [name |-> name, help |-> help, mtype |-> mtype, suffix |-> suffix,
     unit |-> unit, vendor |-> "", subsystem |-> "", category |-> "",
     displayName |-> "", labels |-> labels]

SetType(m, t)        == [m EXCEPT !.mtype = t]
SetSuffix(m, s)      == [m EXCEPT !.suffix = s]
SetUnit(m, u)        == [m EXCEPT !.unit = u]
SetVendor(m, v)      == [m EXCEPT !.vendor = v]
SetSubsystem(m, s)   == [m EXCEPT !.subsystem = s]
SetCategory(m, c)    == [m EXCEPT !.category = c]
SetDisplayName(m, d) == [m EXCEPT !.displayName = d]
AddLabel(m, l)       == [m EXCEPT !.labels = @ \cup {l}]

HasLabel(m, l) == l \in m.labels
LabelCount(m)  == Cardinality(m.labels)

\* Metric.Labels: the label names, sorted.
Labels(m) == SortStrings(m.labels)

FullName(m) == IF m.suffix = "" THEN m.name ELSE m.name \o m.suffix

DisplayName(m) == IF m.displayName # "" THEN m.displayName ELSE m.name

\* The Registry is its map from name to Metric.
NewRegistry == [k \in {} |-> Nil]

Set(r, name, metric) ==
    [k \in DOMAIN r \cup {name} |-> IF k = name THEN metric ELSE r[k]]

Has(r, name) == name \in DOMAIN r

Get(r, name) == IF name \in DOMAIN r THEN r[name] ELSE Nil

Count(r) == Cardinality(DOMAIN r)

\* Registry.List: the keys, sorted.
\* List with the keys in descending order.
ListDescending(r) ==
    LET asc == SortStrings(DOMAIN r)
    IN  [i \in 1..Len(asc) |-> asc[Len(asc) + 1 - i]]

List(r) == SortStrings(DOMAIN r)

\* Registry.ForEach visits the metrics in List order.
ForEach(r) == LET list == List(r) IN [i \in 1..Len(list) |-> r[list[i]]]

ListByType(r, metricType) ==
    SelectSeq(ForEach(r), LAMBDA m : m.mtype = metricType)

ListByVendor(r, vendor) ==
    SelectSeq(ForEach(r), LAMBDA m : m.vendor = vendor)

\* ListVendors with the vendors in descending order.
ListVendorsDescending(r) ==
    LET asc == SortStrings({r[k].vendor : k \in DOMAIN r} \ {""})
    IN  [i \in 1..Len(asc) |-> asc[Len(asc) + 1 - i]]

\* Registry.ListVendors: the non-empty vendors, sorted.
ListVendors(r) == SortStrings({r[k].vendor : k \in DOMAIN r} \ {""})

\* Registry.Filter: a new map holding the entries the predicate accepts;
\* fn is the predicate tabulated over the keys of r.
Filter(r, fn) ==
    [k \in {n \in DOMAIN r : fn[n]} |-> r[k]]

FilterByVendor(r, vendor) ==
    Filter(r, [n \in DOMAIN r |-> r[n].vendor = vendor])

\* Registries as objects: h is the sequence of the registries' maps and a
\* *Registry is an index into it.  Filter builds its result in a new
\* registry and returns the reference to it.
FilterRefInPlace(h, src, fn) ==
    [heap |-> [h EXCEPT ![src] = Filter(h[src], fn)], ref |-> src]

FilterRef(h, src, fn) ==
    [heap |-> Append(h, Filter(h[src], fn)), ref |-> Len(h) + 1]

FilterByVendorRef(h, src, vendor) ==
    FilterRef(h, src, [n \in DOMAIN h[src] |-> h[src][n].vendor = vendor])

SetRef(h, ref, name, metric) == [h EXCEPT ![ref] = Set(@, name, metric)]

-----------------------------------------------------------------------------
(***************************************************************************)
(* pkg/prometheus/parser.go: classification and ingestion.                 *)
(***************************************************************************)

\* The last index of a prefix list whose prefix matches, 0 when none.
LastPrefixMatch(name, prefixes) ==
    LET lower == ToLower(name)
        hits  == {i \in 1..Len(prefixes) : HasPrefix(lower, prefixes[i])}
    IN  IF hits = {} THEN 0 ELSE CHOOSE i \in hits : \A j \in hits : i >= j

\* First index of a prefix list whose prefix the lower-cased name starts
\* with, 0 when there is none (the range loops of detectVendorPrefix).
FirstPrefixMatch(name, prefixes) ==
    LET lower == ToLower(name)
        hits  == {i \in 1..Len(prefixes) : HasPrefix(lower, prefixes[i])}
    IN  IF hits = {} THEN 0 ELSE CHOOSE i \in hits : \A j \in hits : i <= j

detectVendorPrefix(metric, knownPrefixes, customPrefixes) ==
    LET name == metric.name
        help == metric.help
        k    == FirstPrefixMatch(name, knownPrefixes)
        c    == FirstPrefixMatch(name, customPrefixes)
    IN  IF Contains(help, "JTIMON Metric") \/ HasPrefix(name, "_")
        THEN LET m1 == SetVendor(metric, "juniper")
             IN  IF HasPrefix(name, "_components_")
                 THEN LET m2 == SetSubsystem(m1, "components")
                      IN  IF Contains(name, "_cpu_") THEN SetCategory(m2, "cpu")
                          ELSE IF Contains(name, "_memory_") THEN SetCategory(m2, "memory")
                          ELSE IF Contains(name, "_temperature_") THEN SetCategory(m2, "temperature")
                          ELSE IF Contains(name, "_transceiver_") THEN SetCategory(m2, "transceiver")
                          ELSE IF Contains(name, "_power_") THEN SetCategory(m2, "power")
                          ELSE m2
                 ELSE IF HasPrefix(name, "_interfaces_")
                 THEN LET m2 == SetSubsystem(m1, "interfaces")
                      IN  IF Contains(name, "_ethernet_") THEN SetCategory(m2, "ethernet")
                          ELSE IF Contains(name, "_aggregation_") THEN SetCategory(m2, "lag")
                          ELSE IF Contains(name, "_counters_") THEN SetCategory(m2, "counters")
                          ELSE m2
                 ELSE m1
        ELSE IF k > 0
        THEN LET prefix    == knownPrefixes[k]
                 remaining == TrimPrefix(name, prefix)
             IN  SetSubsystem(SetVendor(metric, TrimSuffix(prefix, "_")),
                              FirstToken(remaining))
        ELSE IF c > 0
        THEN SetVendor(metric, TrimSuffix(customPrefixes[c], "_"))
        ELSE metric

\* parseJuniperMetric, the branch for JTIMON (underscore-prefixed) names.
parseJuniperJtimon(metric) ==
    LET name == metric.name
        m1 == IF Contains(name, "_cpu_") \/ Contains(name, "_utilization_")
                   THEN SetUnit(metric, "percent")
              ELSE IF Contains(name, "_power_") THEN SetUnit(metric, "dbm")
              ELSE IF Contains(name, "_temperature_") THEN SetUnit(metric, "celsius")
              ELSE IF Contains(name, "_bytes") \/ Contains(name, "_octets")
                   THEN SetUnit(metric, "decbytes")
              ELSE IF Contains(name, "_bits_") THEN SetUnit(metric, "decbits")
              ELSE IF Contains(name, "_speed") THEN SetUnit(metric, "bps")
              ELSE IF Contains(name, "_packets") \/ Contains(name, "_frames")
                   THEN SetUnit(metric, "pps")
              ELSE IF Contains(name, "_memory_") THEN SetUnit(metric, "bytes")
              ELSE IF Contains(name, "_counters_") THEN SetUnit(metric, "short")
              ELSE metric
        m2 == IF Contains(name, "_interfaces_") /\ m1.category = ""
              THEN IF Contains(name, "_error") \/ Contains(name, "_discard")
                        THEN SetCategory(m1, "errors")
                   ELSE IF Contains(name, "_counters_") THEN SetCategory(m1, "counters")
                   ELSE IF Contains(name, "_state_") THEN SetCategory(m1, "state")
                   ELSE IF Contains(name, "_statistics_") THEN SetCategory(m1, "statistics")
                   ELSE m1
              ELSE m1
    IN  IF Contains(name, "_instant")
        THEN SetDisplayName(m2, ReplaceFirst(name, "_instant", ""))
        ELSE SetDisplayName(m2, name)

\* parseJuniperMetric, the branch for traditional names.
parseJuniperLegacy(metric) ==
    LET name == metric.name
        subsystem == metric.subsystem
        m1 == IF Contains(name, "interface") THEN SetCategory(metric, "interfaces")
              ELSE IF Contains(name, "bgp") \/ Contains(subsystem, "bgp")
                   THEN SetCategory(metric, "bgp")
              ELSE IF Contains(name, "ospf") \/ Contains(subsystem, "ospf")
                   THEN SetCategory(metric, "ospf")
              ELSE IF Contains(name, "route") \/ Contains(subsystem, "route")
                   THEN SetCategory(metric, "routing")
              ELSE IF Contains(name, "memory") \/ Contains(subsystem, "memory")
                   THEN SetCategory(metric, "memory")
              ELSE IF Contains(name, "cpu") \/ Contains(subsystem, "cpu")
                   THEN SetCategory(metric, "cpu")
              ELSE IF Contains(name, "temperature") \/ Contains(subsystem, "temp")
                   THEN SetUnit(SetCategory(metric, "temperature"), "celsius")
              ELSE metric
    IN  IF Contains(name, "bps") \/ Contains(name, "bitrate") THEN SetUnit(m1, "bps")
        ELSE IF Contains(name, "pps") \/ Contains(name, "packetrate") THEN SetUnit(m1, "pps")
        ELSE IF (Contains(name, "error") \/ Contains(name, "discard")) /\ m1.mtype = "counter"
             THEN SetCategory(m1, "errors")
        ELSE m1

parseJuniperMetric(metric) ==
    IF HasPrefix(metric.name, "_") THEN parseJuniperJtimon(metric)
    ELSE parseJuniperLegacy(metric)

parseCiscoMetric(metric) ==
    LET name == metric.name
        subsystem == metric.subsystem
    IN  IF Contains(name, "interface") THEN SetCategory(metric, "interfaces")
        ELSE IF Contains(name, "bgp") \/ Contains(subsystem, "bgp")
             THEN SetCategory(metric, "bgp")
        ELSE IF Contains(name, "ospf") \/ Contains(subsystem, "ospf")
             THEN SetCategory(metric, "ospf")
        ELSE IF Contains(name, "route") \/ Contains(subsystem, "route")
             THEN SetCategory(metric, "routing")
        ELSE IF Contains(name, "memory") \/ Contains(subsystem, "memory")
             THEN SetCategory(metric, "memory")
        ELSE IF Contains(name, "cpu") \/ Contains(subsystem, "cpu")
             THEN SetCategory(metric, "cpu")
        ELSE metric

\* The unit inference every series entry runs, from the stripped name.
inferBaseUnit(metric, name) ==
    IF Contains(name, "_seconds") THEN SetUnit(metric, "s")
    ELSE IF Contains(name, "_milliseconds") THEN SetUnit(metric, "ms")
    ELSE IF Contains(name, "_bytes") THEN SetUnit(metric, "decbytes")
    ELSE IF Contains(name, "_percent") \/ Contains(name, "_ratio") THEN SetUnit(metric, "percent")
    ELSE IF Contains(name, "_count") THEN SetUnit(metric, "short")
    ELSE metric

\* Vendor detection is on when cfg, cfg.VendorConfig are set and Enabled.
detectVendors(c) == c.VendorConfig # Nil /\ c.VendorConfig.Enabled

\* The vendor part with the enrichment chosen by the vendor the Metric had
\* before detectVendorPrefix ran.
classifyVendorStale(metric, c) ==
    IF detectVendors(c)
    THEN LET m1 == detectVendorPrefix(metric, c.VendorConfig.KnownPrefixes,
                                      c.VendorConfig.CustomPrefixes)
             m2 == IF c.VendorConfig.JuniperEnabled /\ metric.vendor = "juniper"
                   THEN parseJuniperMetric(m1) ELSE m1
         IN  IF c.VendorConfig.CiscoEnabled /\ metric.vendor = "cisco"
             THEN parseCiscoMetric(m2) ELSE m2
    ELSE metric

\* The vendor part of a series entry: detectVendorPrefix, then the enabled
\* vendor enrichment.
classifyVendor(metric, c) ==
    IF detectVendors(c)
    THEN LET m1 == detectVendorPrefix(metric, c.VendorConfig.KnownPrefixes,
                                      c.VendorConfig.CustomPrefixes)
             m2 == IF c.VendorConfig.JuniperEnabled /\ m1.vendor = "juniper"
                   THEN parseJuniperMetric(m1) ELSE m1
         IN  IF c.VendorConfig.CiscoEnabled /\ m2.vendor = "cisco"
             THEN parseCiscoMetric(m2) ELSE m2
    ELSE metric

\* The suffix a series name carries ("" when none) and the name without it.
suffixOf(name) ==
    IF HasSuffix(name, "_bucket") THEN "_bucket"
    ELSE IF HasSuffix(name, "_sum") THEN "_sum"
    ELSE IF HasSuffix(name, "_count") THEN "_count"
    ELSE ""

stripSuffix(name) == TrimSuffix(name, suffixOf(name))

\* case PromParse.EntryHelp
ingestHelp(r, m, h) == Set(r, m, New(m, h, {}, "", "", "short"))

\* case PromParse.EntryType
ingestType(r, m, typ) ==
    IF Get(r, m) # Nil THEN [r EXCEPT ![m] = SetType(@, typ)] ELSE r

\* case PromParse.EntrySeries; seriesName is labelmap["__name__"] ("" when
\* the key is missing) and keys are the other keys of labelmap.
ingestSeries(r, c, seriesName, keys) ==
    LET suffix == suffixOf(seriesName)
        name   == stripSuffix(seriesName)
        r1     == IF ~Has(r, name)
                  THEN Set(r, name, New(name, "", {}, "", suffix, "short"))
                  ELSE r
        m1     == SetSuffix(Get(r1, name), suffix)
        m2     == inferBaseUnit(m1, name)
        m3     == classifyVendor(m2, c)
        m4     == [m3 EXCEPT !.labels = @ \cup {k \in keys : k # "__name__" /\ k # ""}]
    IN  [r1 EXCEPT ![name] = m4]

-----------------------------------------------------------------------------
(***************************************************************************)
(* pkg/query/promql.go: query expression and legend composition.           *)
(***************************************************************************)

\* The vendor override path: JTIMON metrics from Juniper devices.
isJtimon(metric) == metric.vendor = "juniper" /\ HasPrefix(metric.name, "_")

buildCounterQuery(metric, c) ==
    ReplaceAll(c.CounterExprTmpl, c.Delimiter, metric.name \o metric.suffix)

buildGaugeQuery(metric, c) ==
    ReplaceAll(c.GaugeExprTmpl, c.Delimiter, metric.name \o metric.suffix)

\* The summary query over name + suffix.
buildSummaryQueryWithSuffix(metric, c) ==
    ReplaceAll(c.SummaryExprTmpl, c.Delimiter, metric.name \o metric.suffix)

buildSummaryQuery(metric, c) ==
    ReplaceAll(c.SummaryExprTmpl, c.Delimiter, metric.name)

buildJuniperJtimonQuery(metric) ==
    LET metricName == metric.name
    IN  IF /\ Contains(metricName, "_counters_")
           /\ \/ Contains(metricName, "_in_") \/ Contains(metricName, "_out_")
              \/ Contains(metricName, "_frames_") \/ Contains(metricName, "_drops_")
              \/ Contains(metricName, "_errors_") \/ Contains(metricName, "_packets_")
        THEN "rate(" \o metricName \o "[5m])"
        ELSE metricName

BuildQuery(metric, c) ==
    IF isJtimon(metric) THEN buildJuniperJtimonQuery(metric)
    ELSE IF metric.mtype = "counter" THEN buildCounterQuery(metric, c)
    ELSE IF metric.mtype = "gauge" THEN buildGaugeQuery(metric, c)
    ELSE IF metric.mtype = "summary" THEN buildSummaryQuery(metric, c)
    ELSE FullName(metric)

\* fmt.Sprintf("%s:[{{%s}}]", label, label)
legendClause(label) == label \o ":[{{" \o label \o "}}]"

\* FormatLegend with the built-in fallback only.
FormatLegendBuiltin(metric, fallback) ==
    LET labels == Labels(metric)
    IN  IF Len(labels) = 0
        THEN "Job:[{{job}}]"
        ELSE Join([i \in 1..Len(labels) |-> legendClause(labels[i])], " ")

FormatLegend(metric, fallback) ==
    LET labels == Labels(metric)
    IN  IF Len(labels) = 0
        THEN IF fallback # "" THEN fallback ELSE "Job:[{{job}}]"
        ELSE Join([i \in 1..Len(labels) |-> legendClause(labels[i])], " ")

priorityLabels == <<"device", "_interfaces_interface__name", "_components_component__name">>

\* GetLegend with the structured-telemetry clauses in the order of the
\* metric's sorted labels.
GetLegendLabelOrder(metric, c) ==
    IF isJtimon(metric)
    THEN LET P       == {priorityLabels[i] : i \in 1..Len(priorityLabels)}
             found   == SelectSeq(Labels(metric), LAMBDA l : l \in P)
             legends == [i \in 1..Len(found) |-> legendClause(found[i])]
         IN  IF Len(legends) > 0 THEN Join(legends, " ") ELSE "Device:[{{device}}]"
    ELSE IF metric.mtype = "counter" THEN FormatLegend(metric, c.CounterLegend)
    ELSE IF metric.mtype = "gauge" THEN FormatLegend(metric, c.GaugeLegend)
    ELSE IF metric.mtype = "summary" THEN FormatLegend(metric, c.SummaryLegend)
    ELSE FormatLegend(metric, "")

GetLegend(metric, c) ==
    IF isJtimon(metric)
    THEN LET found   == SelectSeq(priorityLabels, LAMBDA l : l \in metric.labels)
             legends == [i \in 1..Len(found) |-> legendClause(found[i])]
         IN  IF Len(legends) > 0 THEN Join(legends, " ") ELSE "Device:[{{device}}]"
    ELSE IF metric.mtype = "counter" THEN FormatLegend(metric, c.CounterLegend)
    ELSE IF metric.mtype = "gauge" THEN FormatLegend(metric, c.GaugeLegend)
    ELSE IF metric.mtype = "summary" THEN FormatLegend(metric, c.SummaryLegend)
    ELSE FormatLegend(metric, "")

-----------------------------------------------------------------------------
(***************************************************************************)
(* pkg/grafana: panels, the grid cursor and the layout strategies.         *)
(***************************************************************************)

\* The Panel fields the layout and the composer set.
NewPanel(title) ==
    [Title |-> title, Type |-> "graph", Description |-> "", ID |-> 0,
     GridPos |-> [X |-> 0, Y |-> 0, H |-> 0, W |-> 0],
     Unit |-> "short",
     Targets |-> <<[RefID |-> "A", Expr |-> "", LegendFormat |-> "",
                    Datasource |-> "", Format |-> "time_series"]>>,
     Datasource |-> "", Alert |-> Nil]

\* A row-header panel literal: full width, height 1.
RowPanel(title, description, yPos) ==
    [Title |-> title, Type |-> "row", Description |-> description, ID |-> 0,
     GridPos |-> [X |-> 0, Y |-> yPos, H |-> 1, W |-> 24],
     Unit |-> "", Targets |-> <<>>, Datasource |-> "", Alert |-> Nil]

SetGridPos(p, x, y, h, w) == [p EXCEPT !.GridPos = [X |-> x, Y |-> y, H |-> h, W |-> w]]

\* AddPanel numbering the panels from 0.
AddPanelFromZero(d, panel) == Append(d, [panel EXCEPT !.ID = Len(d)])

\* Dashboard.AddPanel on the panel sequence d.
AddPanel(d, panel) == Append(d, [panel EXCEPT !.ID = Len(d) + 1])

NewPanelGridLayout == [X |-> 0, Y |-> 0, Count |-> 0]

UpdateY(p, y) == [p EXCEPT !.Y = p.Y + y, !.Count = p.Count + 1]

UpdateX(p, x) ==
    IF x > 0 THEN [p EXCEPT !.X = p.X + x, !.Count = p.Count + 1]
    ELSE [p EXCEPT !.X = 0]

\* Panel.SetType
PanelSetType(p, ptype) == [p EXCEPT !.Type = ptype]

\* Panel.SetMetricExpr and Panel.SetLegendFormat: on every target.
SetMetricExpr(p, expr) ==
    [p EXCEPT !.Targets = [i \in 1..Len(@) |-> [@[i] EXCEPT !.Expr = expr]]]

SetLegendFormat(p, format) ==
    [p EXCEPT !.Targets = [i \in 1..Len(@) |-> [@[i] EXCEPT !.LegendFormat = format]]]

\* The visualization kinds of the configuration package.
VisualizationGraph == "graph"
VisualizationGauge == "gauge"
VisualizationStat == "stat"
VisualizationTable == "table"
VisualizationHeatmap == "heatmap"
VisualizationBarGauge == "bargauge"

\* The choice with the stat widget for a gauge of any label count.
getVisualizationTypeStatAnyLabels(metric, c) ==
    LET v == c.Visualizations
        override ==
            IF v = Nil THEN ""
            ELSE IF metric.mtype = "counter" /\ v.CounterType # "" THEN v.CounterType
            ELSE IF metric.mtype = "gauge" /\ v.GaugeType # "" THEN v.GaugeType
            ELSE IF metric.mtype = "summary" /\ v.SummaryType # "" THEN v.SummaryType
            ELSE v.DefaultType
    IN  IF override # "" THEN override
        ELSE IF metric.mtype = "counter" THEN VisualizationGraph
        ELSE IF metric.mtype = "gauge"
             THEN IF c.Gauges THEN VisualizationGauge
                  ELSE IF v # Nil /\ v.UseStatForGauges THEN VisualizationStat
                  ELSE VisualizationGraph
        ELSE IF metric.mtype = "summary"
             THEN IF metric.suffix = "_bucket" /\ v # Nil /\ v.UseHeatmapForHistograms
                  THEN VisualizationHeatmap
                  ELSE VisualizationGraph
        ELSE VisualizationGraph

getVisualizationType(metric, c) ==
    LET v == c.Visualizations
        override ==
            IF v = Nil THEN ""
            ELSE IF metric.mtype = "counter" /\ v.CounterType # "" THEN v.CounterType
            ELSE IF metric.mtype = "gauge" /\ v.GaugeType # "" THEN v.GaugeType
            ELSE IF metric.mtype = "summary" /\ v.SummaryType # "" THEN v.SummaryType
            ELSE v.DefaultType
    IN  IF override # "" THEN override
        ELSE IF metric.mtype = "counter" THEN VisualizationGraph
        ELSE IF metric.mtype = "gauge"
             THEN IF c.Gauges THEN VisualizationGauge
                  ELSE IF v # Nil /\ v.UseStatForGauges /\ LabelCount(metric) <= 1
                       THEN VisualizationStat
                  ELSE VisualizationGraph
        ELSE IF metric.mtype = "summary"
             THEN IF metric.suffix = "_bucket" /\ v # Nil /\ v.UseHeatmapForHistograms
                  THEN VisualizationHeatmap
                  ELSE VisualizationGraph
        ELSE VisualizationGraph

\* configureVisualization: the panel type; the per-kind display options are
\* not part of the panel fields kept here.
configureVisualization(panel, metric, visualType) == PanelSetType(panel, visualType)

\* The heuristic with the gauge's memory cue tried before its cpu cue.
generateAlertThresholdMemoryFirst(metric) ==
    LET name == metric.name
        threshold(w, e) == [Metric |-> name, Warning |-> w, Error |-> e, Notify |-> TRUE]
    IN  IF metric.mtype = "counter"
        THEN IF Contains(name, "error") \/ Contains(name, "fail")
             THEN threshold(1, 10) ELSE Nil
        ELSE IF metric.mtype = "gauge"
        THEN IF Contains(name, "memory") \/ Contains(name, "mem") THEN threshold(850, 950)
             ELSE IF Contains(name, "cpu") THEN threshold(800, 950)
             ELSE IF Contains(name, "disk") THEN threshold(800, 900)
             ELSE Nil
        ELSE IF metric.mtype = "summary"
        THEN IF Contains(name, "latency") \/ Contains(name, "duration") \/ Contains(name, "time")
             THEN threshold(10000, 20000) ELSE Nil
        ELSE Nil

\* generateAlertThreshold; Warning and Error are in tenths (0.1 is 1).
generateAlertThreshold(metric) ==
    LET name == metric.name
        threshold(w, e) == [Metric |-> name, Warning |-> w, Error |-> e, Notify |-> TRUE]
    IN  IF metric.mtype = "counter"
        THEN IF Contains(name, "error") \/ Contains(name, "fail")
             THEN threshold(1, 10) ELSE Nil
        ELSE IF metric.mtype = "gauge"
        THEN IF Contains(name, "cpu") THEN threshold(800, 950)
             ELSE IF Contains(name, "memory") \/ Contains(name, "mem") THEN threshold(850, 950)
             ELSE IF Contains(name, "disk") THEN threshold(800, 900)
             ELSE Nil
        ELSE IF metric.mtype = "summary"
        THEN IF Contains(name, "latency") \/ Contains(name, "duration") \/ Contains(name, "time")
             THEN threshold(10000, 20000) ELSE Nil
        ELSE Nil

\* One "greater than" condition of an alert.
alertCondition(refID, query, param, operator) ==
    [Type |-> "query",
     Target |-> [RefID |-> refID, Datasource |-> "Prometheus", Expr |-> query],
     Evaluator |-> [Type |-> "gt", Params |-> <<param>>],
     Reducer |-> "avg", Operator |-> operator]

createAlertDefinition(name, query, warning, criticalThreshold, notify) ==
    [Name |-> "Alert for " \o name,
     Message |-> name \o " is outside acceptable range",
     Frequency |-> "60s", For |-> "5m",
     Conditions |->
        <<alertCondition("A", query, criticalThreshold, "")>>
        \o (IF warning > 0 /\ warning # criticalThreshold
            THEN <<alertCondition("B", query, warning, "or")>> ELSE <<>>),
     Notifications |-> IF notify THEN <<1>> ELSE <<>>]

\* addAlertToPanel: the conditions whose reference id has no target yet get
\* one, in condition order.
RECURSIVE addAlertTargets(_, _)
addAlertTargets(targets, conditions) ==
    IF conditions = <<>> THEN targets
    ELSE LET condition == Head(conditions)
             found == \E i \in 1..Len(targets) : targets[i].RefID = condition.Target.RefID
         IN  addAlertTargets(
               IF found THEN targets
               ELSE Append(targets, [RefID |-> condition.Target.RefID,
                                     Expr |-> condition.Target.Expr,
                                     LegendFormat |-> "",
                                     Datasource |-> condition.Target.Datasource,
                                     Format |-> "time_series"]),
               Tail(conditions))

\* addAlertToPanel leaving the panel's targets as they are.
addAlertToPanelKeepTargets(panel, alert) ==
    [panel EXCEPT !.Alert = alert, !.Datasource = "Prometheus"]

addAlertToPanel(panel, alert) ==
    [panel EXCEPT !.Alert = alert, !.Datasource = "Prometheus",
                  !.Targets = addAlertTargets(@, alert.Conditions)]

createPanelForMetric(metric, c) ==
    LET title == IF DisplayName(metric) # metric.name
                 THEN ReplaceAll(DisplayName(metric), "_", " ")
                 ELSE ReplaceAll(metric.name, "_", " ")
        base  == NewPanel(title)
        p1    == [base EXCEPT !.Description = metric.help, !.Unit = metric.unit]
        visualized(panel) ==
            IF c.Visualizations # Nil
            THEN configureVisualization(panel, metric, getVisualizationType(metric, c))
            ELSE IF c.Gauges /\ metric.mtype = "gauge" THEN PanelSetType(panel, "gauge")
            ELSE PanelSetType(panel, "graph")
        alerted(panel, expr, alertThreshold) ==
            IF c.GenerateAlerts /\ alertThreshold # Nil
            THEN addAlertToPanel(panel,
                                 createAlertDefinition(metric.name, expr,
                                                       alertThreshold.Warning,
                                                       alertThreshold.Error,
                                                       alertThreshold.Notify))
            ELSE panel
        queried(expr) ==
            alerted(visualized(SetLegendFormat(SetMetricExpr(p1, expr),
                                               GetLegend(metric, c))),
                    expr, generateAlertThreshold(metric))
    IN  queried(BuildQuery(metric, c))

\* generateStandard: the loop body over the metrics ms, from cursor pgrid.
RECURSIVE standardLoop(_, _, _, _)
standardLoop(d, ms, pgrid, c) ==
    IF ms = <<>> THEN d
    ELSE LET panel == SetGridPos(createPanelForMetric(Head(ms), c),
                                 pgrid.X, pgrid.Y, 8, 12)
             next  == IF (pgrid.Count % 2) < 1
                      THEN UpdateY(UpdateX(pgrid, 0), 9)
                      ELSE UpdateX(pgrid, 12)
         IN  standardLoop(AddPanel(d, panel), Tail(ms), next, c)

\* The flat layout without the first metric of the registry.
generateStandardSkipFirst(d, r, c) ==
    standardLoop(d, SubSeq(ForEach(r), 2, Count(r)), NewPanelGridLayout, c)

generateStandard(d, r, c) == standardLoop(d, ForEach(r), NewPanelGridLayout, c)

generateWithCorrelation(d, r, c) == generateStandard(d, r, c)

\* The group key of a metric: the configured group-by labels it has,
\* joined by ":", or "other".
groupKeyOf(metric, groupByLabels) ==
    LET present == SelectSeq(groupByLabels, LAMBDA l : HasLabel(metric, l))
    IN  IF Join(present, ":") = "" THEN "other" ELSE Join(present, ":")

\* The groups map of generateWithLabelGroups: key -> metrics in ForEach order.
labelGroups(r, c) ==
    LET keyOf(m) == groupKeyOf(m, c.LabelGrouping.GroupByLabels)
    IN  [g \in {keyOf(r[n]) : n \in DOMAIN r} |->
            SelectSeq(ForEach(r), LAMBDA m : keyOf(m) = g)]

\* The member loop of one label group: panels left to right from
\* (xPos, yPos); i counts the members placed so far.
RECURSIVE labelGroupLoop(_, _, _, _, _, _)
labelGroupLoop(d, ms, c, xPos, yPos, i) ==
    IF ms = <<>> THEN [d |-> d, xPos |-> xPos, yPos |-> yPos]
    ELSE LET ppr        == c.LabelGrouping.PanelsPerRow
             panelWidth == IF ppr > 0 THEN 24 \div ppr ELSE 12
             panel      == SetGridPos(createPanelForMetric(Head(ms), c),
                                      xPos, yPos, 8, panelWidth)
             wrap       == ppr > 0 /\ (i + 1) % ppr = 0
         IN  labelGroupLoop(AddPanel(d, panel), Tail(ms), c,
                            IF wrap THEN 0 ELSE xPos + panelWidth,
                            IF wrap THEN yPos + 8 ELSE yPos,
                            i + 1)

\* generateWithLabelGroups over the groups in the order the map range
\* yields them.
RECURSIVE labelGroupsLoop(_, _, _, _, _)
labelGroupsLoop(d, groups, order, c, yPos) ==
    IF order = <<>> THEN d
    ELSE LET groupName    == Head(order)
             groupMetrics == groups[groupName]
             sep          == c.LabelGrouping.SeparateRows
             d1 == IF sep
                   THEN AddPanel(d, RowPanel(ReplaceAll(groupName, ":", " "),
                                             "Metrics grouped by " \o groupName, yPos))
                   ELSE d
             y1 == IF sep THEN yPos + 1 ELSE yPos
             y2(res) == IF res.xPos > 0 THEN res.yPos + 8
                        ELSE IF Len(groupMetrics) > 0 THEN res.yPos + 1
                        ELSE res.yPos
             rest(res) == labelGroupsLoop(res.d, groups, Tail(order), c, y2(res))
         IN  rest(labelGroupLoop(d1, groupMetrics, c, 0, y1, 0))

generateWithLabelGroups(d, r, c, order) ==
    labelGroupsLoop(d, labelGroups(r, c), order, c, 0)

\* The member loop of the vendor-grouped layout (general metrics, one
\* category, or one vendor shown flat).
RECURSIVE vendorMemberLoop(_, _, _, _, _, _)
vendorMemberLoop(d, ms, c, xPos, yPos, metricCount) ==
    IF ms = <<>> THEN [d |-> d, xPos |-> xPos, yPos |-> yPos]
    ELSE LET hasPpr     == c.LabelGrouping # Nil /\ c.LabelGrouping.PanelsPerRow > 0
             panelWidth == IF hasPpr THEN 24 \div c.LabelGrouping.PanelsPerRow ELSE 12
             panel      == SetGridPos(createPanelForMetric(Head(ms), c),
                                      xPos, yPos, 8, panelWidth)
             wrap       == hasPpr /\ (metricCount + 1) % c.LabelGrouping.PanelsPerRow = 0
         IN  vendorMemberLoop(AddPanel(d, panel), Tail(ms), c,
                              IF wrap THEN 0 ELSE xPos + panelWidth,
                              IF wrap THEN yPos + 8 ELSE yPos,
                              metricCount + 1)

\* A member loop followed by "if xPos > 0 { yPos += 8 }".
vendorMembers(d, ms, c, yPos) ==
    LET closeRow(res) ==
            [d |-> res.d, yPos |-> IF res.xPos > 0 THEN res.yPos + 8 ELSE res.yPos]
    IN  closeRow(vendorMemberLoop(d, ms, c, 0, yPos, 0))

\* The display name of a vendor code.
vendorTitleOf(vendor) ==
    IF vendor = "juniper" THEN "Juniper Networks"
    ELSE IF vendor = "cisco" THEN "Cisco Systems"
    ELSE IF vendor = "arista" THEN "Arista Networks"
    ELSE IF vendor = "huawei" THEN "Huawei Technologies"
    ELSE IF vendor = "paloalto" THEN "Palo Alto Networks"
    ELSE IF vendor = "fortinet" THEN "Fortinet"
    ELSE IF vendor = "f5" THEN "F5 Networks"
    ELSE IF vendor = "checkpoint" THEN "Check Point"
    ELSE vendor

\* The category key taken from the subsystem.
categoryOfSubsystem(metric) == IF metric.subsystem = "" THEN "other" ELSE metric.subsystem

categoryOf(metric) == IF metric.category = "" THEN "other" ELSE metric.category

\* The categories map of one vendor: category -> metrics in ForEach order.
vendorCategories(vendorMetrics) ==
    [cat \in {categoryOf(vendorMetrics[n]) : n \in DOMAIN vendorMetrics} |->
        SelectSeq(ForEach(vendorMetrics), LAMBDA m : categoryOf(m) = cat)]

\* The categories of one vendor in the order the map range yields them.
RECURSIVE categoriesLoop(_, _, _, _, _, _)
categoriesLoop(d, categories, order, vendorTitle, c, yPos) ==
    IF order = <<>> THEN [d |-> d, yPos |-> yPos]
    ELSE LET category      == Head(order)
             categoryTitle == UpperChar(CharAt(category, 1))
                                \o SubSeq(category, 2, Len(category))
             d1  == AddPanel(d, RowPanel(categoryTitle,
                                         categoryTitle \o " metrics for " \o vendorTitle,
                                         yPos))
             rest(res) == categoriesLoop(res.d, categories, Tail(order),
                                         vendorTitle, c, res.yPos)
         IN  rest(vendorMembers(d1, categories[category], c, yPos + 1))

\* The vendor sections; catOrder[vendor] is the order the range over that
\* vendor's categories map yields.
RECURSIVE vendorsLoop(_, _, _, _, _, _)
vendorsLoop(d, r, vendors, catOrder, c, yPos) ==
    IF vendors = <<>> THEN d
    ELSE LET vendor        == Head(vendors)
             vendorMetrics == FilterByVendor(r, vendor)
             vendorTitle   == vendorTitleOf(vendor)
             d1  == AddPanel(d, RowPanel(vendorTitle, "Metrics for " \o vendorTitle, yPos))
             categories == vendorCategories(vendorMetrics)
             rest(res) == vendorsLoop(res.d, r, Tail(vendors), catOrder, c, res.yPos)
         IN  IF Count(vendorMetrics) = 0
             THEN vendorsLoop(d, r, Tail(vendors), catOrder, c, yPos)
             ELSE IF Cardinality(DOMAIN categories) > 1
             THEN rest(categoriesLoop(d1, categories, catOrder[vendor],
                                      vendorTitle, c, yPos + 1))
             ELSE rest(vendorMembers(d1, ForEach(vendorMetrics), c, yPos + 1))

generateWithVendorGroups(d, r, c, catOrder) ==
    LET vendors == ListVendors(r)
        nonVendorMetrics == Filter(r, [n \in DOMAIN r |-> r[n].vendor = ""])
        sections(general) == vendorsLoop(general.d, r, vendors, catOrder, c, general.yPos)
    IN  IF Count(nonVendorMetrics) > 0
        THEN sections(vendorMembers(
                        AddPanel(d, RowPanel("General Metrics",
                                             "General metrics with no vendor prefix", 0)),
                        ForEach(nonVendorMetrics), c, 1))
        ELSE sections([d |-> d, yPos |-> 0])

\* The choice with label grouping tried before vendor grouping.
strategyOfLabelsFirst(r, c) ==
    IF c.AutoCorrelate THEN "correlation"
    ELSE IF c.LabelGrouping # Nil /\ Len(c.LabelGrouping.GroupByLabels) > 0 THEN "label"
    ELSE IF /\ c.VendorConfig # Nil /\ c.VendorConfig.Enabled /\ c.VendorConfig.GroupByVendor
            /\ Len(ListVendors(r)) > 0
    THEN "vendor"
    ELSE "standard"

\* Which strategy Dashboard.Generate runs.
strategyOf(r, c) ==
    IF /\ c.VendorConfig # Nil /\ c.VendorConfig.Enabled /\ c.VendorConfig.GroupByVendor
       /\ Len(ListVendors(r)) > 0
    THEN "vendor"
    ELSE IF c.AutoCorrelate THEN "correlation"
    ELSE IF c.LabelGrouping # Nil /\ Len(c.LabelGrouping.GroupByLabels) > 0 THEN "label"
    ELSE "standard"

\* Dashboard.Generate on an empty panel list.
Generate(r, c, groupOrder, catOrder) ==
    LET strategy == strategyOf(r, c)
    IN  IF strategy = "vendor" THEN generateWithVendorGroups(<<>>, r, c, catOrder)
        ELSE IF strategy = "correlation" THEN generateWithCorrelation(<<>>, r, c)
        ELSE IF strategy = "label" THEN generateWithLabelGroups(<<>>, r, c, groupOrder)
        ELSE generateStandard(<<>>, r, c)

-----------------------------------------------------------------------------
(***************************************************************************)
(* pkg/query: PromQLBuilder.                                               *)
(***************************************************************************)

\* NewPromQLBuilder: selectors is a map from label key to value.
NewPromQLBuilder(metric) ==
    [metric |-> metric, selectors |-> [k \in {} |-> ""], functions |-> <<>>,
     timeRange |-> "", groupBy |-> <<>>, offset |-> ""]

WithLabel(b, key, value) ==
    [b EXCEPT !.selectors =
        [k \in DOMAIN @ \cup {key} |-> IF k = key THEN value ELSE @[k]]]

\* WithFunction; args are the arguments already formatted with %v.
WithFunction(b, fn, args) ==
    LET fnStr == IF Len(args) > 0 THEN fn \o "(" \o Join(args, ",") \o ")" ELSE fn
    IN  [b EXCEPT !.functions = Append(@, fnStr)]

WithRate(b, duration) == WithFunction([b EXCEPT !.timeRange = duration], "rate", <<>>)

WithGroupBy(b, labels) == [b EXCEPT !.groupBy = @ \o labels]

WithOffset(b, offset) == [b EXCEPT !.offset = offset]

\* The functions applied from the first added to the last, the last added
\* outermost.
RECURSIVE applyFunctionsForward(_, _, _)
applyFunctionsForward(query, functions, i) ==
    IF i = 0 THEN query
    ELSE LET fn == functions[Len(functions) + 1 - i]
         IN  applyFunctionsForward(
               IF HasSuffix(fn, ")")
               THEN ReplaceFirst(fn, ")", "(" \o query \o "))")
               ELSE fn \o "(" \o query \o ")",
               functions, i - 1)

\* The loop of Build over the functions, for i := len - 1 down to 0 (here
\* i counts from len down to 1).
RECURSIVE applyFunctions(_, _, _)
applyFunctions(query, functions, i) ==
    IF i = 0 THEN query
    ELSE LET fn == functions[i]
         IN  applyFunctions(
               IF HasSuffix(fn, ")")
               THEN ReplaceFirst(fn, ")", "(" \o query \o "))")
               ELSE fn \o "(" \o query \o ")",
               functions, i - 1)

\* Build; order is the order in which the range over the selectors map
\* yields its keys.
Build(b, order) ==
    LET selectorParts == [i \in 1..Len(order) |->
                             order[i] \o "=\"" \o b.selectors[order[i]] \o "\""]
        q1 == IF Len(order) > 0
              THEN b.metric \o "{" \o Join(selectorParts, ",") \o "}"
              ELSE b.metric \o "{}"
        q2 == IF b.timeRange # "" THEN q1 \o "[" \o b.timeRange \o "]" ELSE q1
        q3 == IF b.offset # "" THEN q2 \o " offset " \o b.offset ELSE q2
        q4 == applyFunctions(q3, b.functions, Len(b.functions))
    IN  IF Len(b.groupBy) > 0
        THEN q4 \o " by (" \o Join(b.groupBy, ",") \o ")"
        ELSE q4

NoBuilder == NewPromQLBuilder("")

-----------------------------------------------------------------------------
(***************************************************************************)
(* Inputs: configurations and parsed entries.                              *)
(***************************************************************************)

\* The documented defaults of the query and legend options.
DefaultConfig ==
    [VendorConfig |-> Nil, LabelGrouping |-> Nil, AutoCorrelate |-> FALSE,
     Gauges |-> FALSE, Visualizations |-> Nil, GenerateAlerts |-> FALSE,
     CounterExprTmpl |-> "sum(rate(:METRIC: [1m]))",
     GaugeExprTmpl |-> ":METRIC:", SummaryExprTmpl |-> ":METRIC:",
     Delimiter |-> ":METRIC:",
     CounterLegend |-> "Job:[{{job}}]", GaugeLegend |-> "Job:[{{job}}]",
     SummaryLegend |-> "Job:[{{job}}]"]

VendorConfigs ==
    {Nil,
     [Enabled |-> TRUE, KnownPrefixes |-> <<"juniper_", "cisco_">>,
      CustomPrefixes |-> <<"acme_">>, JuniperEnabled |-> TRUE,
      CiscoEnabled |-> TRUE, GroupByVendor |-> TRUE]}

PanelsPerRowValues == {0, 2}

LabelGroupings ==
    {Nil} \cup
    {[GroupByLabels |-> <<"job", "instance">>, SeparateRows |-> TRUE,
      PanelsPerRow |-> p] : p \in PanelsPerRowValues}

\* The configurations of a run: every vendor and label-grouping setting
\* without auto-correlation, auto-correlation with two panels per row, and
\* label grouping with more panels per row than the grid has columns.
Configs ==
    {[DefaultConfig EXCEPT !.VendorConfig = v, !.LabelGrouping = g] :
        v \in VendorConfigs, g \in LabelGroupings}
    \cup
    {[DefaultConfig EXCEPT !.VendorConfig = v, !.AutoCorrelate = TRUE,
                           !.LabelGrouping = [GroupByLabels |-> <<"job", "instance">>,
                                              SeparateRows |-> TRUE,
                                              PanelsPerRow |-> 2]] :
        v \in VendorConfigs}
    \cup
    {[DefaultConfig EXCEPT !.LabelGrouping = [GroupByLabels |-> <<"job", "instance">>,
                                              SeparateRows |-> TRUE,
                                              PanelsPerRow |-> 25]]}

\* labelmap["__name__"] of the series entries; "" is a missing or empty name.
SeriesNames ==
    {"", "up", "rpc_seconds_sum", "_interfaces_in_errors_instant",
     "juniper_bgp_peers", "cisco_cpu_bytes", "acme_disk"}

\* The other keys of labelmap.
LabelKeySets == {{}, {"instance", "job"}}

\* The names of HELP and TYPE entries.
MetaNames == {"up", "rpc_seconds_sum"}

HelpTexts == {"JTIMON Metric"}

TypeStrings == {"counter", "gauge"}

\* The permutations of a finite set, as sequences.
Perms(S) ==
    {f \in [1..Cardinality(S) -> S] : \A i, j \in 1..Cardinality(S) : f[i] = f[j] => i = j}

\* The orders in which a range over the groups map may yield its keys.
GroupOrders(r, c) ==
    IF c.LabelGrouping = Nil THEN {<<>>} ELSE Perms(DOMAIN labelGroups(r, c))

\* For every vendor, an order in which a range over its categories map may
\* yield its keys.
CategoryOrders(r) ==
    LET V == {r[k].vendor : k \in DOMAIN r} \ {""}
        cats(v) == DOMAIN vendorCategories(FilterByVendor(r, v))
    IN  {f \in [V -> UNION {Perms(cats(v)) : v \in V}] : \A v \in V : f[v] \in Perms(cats(v))}

NoMetric == New("", "", {}, "", "", "")

NoResult == [op |-> "none", value |-> ""]

-----------------------------------------------------------------------------
(***************************************************************************)
(* The run: ParseMetricsWithConfig entry by entry, then Generate.          *)
(***************************************************************************)

Init ==
    /\ cfg \in Configs
    /\ registry = NewRegistry
    /\ nEntries = 0
    /\ last = [op |-> "none", name |-> ""]
    /\ pc = "ingest"
    /\ panels = <<>>
    /\ heap = <<>> /\ filtered = 0
    /\ builder = NoBuilder
    /\ qmetric = NoMetric
    /\ qresult = NoResult

\* A HELP entry.
Help(m, h) ==
    /\ pc = "ingest" /\ nEntries < MaxEntries
    /\ registry' = ingestHelp(registry, m, h)
    /\ nEntries' = nEntries + 1
    /\ last' = [op |-> "help", name |-> m]
    /\ UNCHANGED <<cfg, pc, panels, qmetric, qresult, heap, filtered, builder>>

\* A TYPE entry.
Type(m, typ) ==
    /\ pc = "ingest" /\ nEntries < MaxEntries
    /\ registry' = ingestType(registry, m, typ)
    /\ nEntries' = nEntries + 1
    /\ last' = [op |-> "type", name |-> m]
    /\ UNCHANGED <<cfg, pc, panels, qmetric, qresult, heap, filtered, builder>>

\* A series entry.
Series(seriesName, keys) ==
    /\ pc = "ingest" /\ nEntries < MaxEntries
    /\ registry' = ingestSeries(registry, cfg, seriesName, keys)
    /\ nEntries' = nEntries + 1
    /\ last' = [op |-> "series", name |-> seriesName]
    /\ UNCHANGED <<cfg, pc, panels, qmetric, qresult, heap, filtered, builder>>

\* End of input: the registry is returned and the dashboard generated.
GenerateDashboard ==
    /\ pc = "ingest"
    /\ \E groupOrder \in GroupOrders(registry, cfg), catOrder \in CategoryOrders(registry) :
          panels' = Generate(registry, cfg, groupOrder, catOrder)
    /\ pc' = "done"
    /\ last' = [op |-> "generate", name |-> ""]
    /\ UNCHANGED <<cfg, registry, nEntries, qmetric, qresult, heap, filtered, builder>>

Next ==
    \/ \E m \in MetaNames, h \in HelpTexts : Help(m, h)
    \/ \E m \in MetaNames, typ \in TypeStrings : Type(m, typ)
    \/ \E n \in SeriesNames, keys \in LabelKeySets : Series(n, keys)
    \/ GenerateDashboard

Spec == Init /\ [][Next]_vars

-----------------------------------------------------------------------------
(***************************************************************************)
(* The Query Composer on its own: a Metric built with metrics.New and the  *)
(* setters, and a Builder over a configuration.                            *)
(***************************************************************************)

\* An expression template is its literal pieces joined by the delimiter.
TemplatePieces ==
    {<<"sum(rate(", " [1m]))">>, <<"", "">>, <<"(", " / ", ")">>, <<"up">>}

ComposeDelimiters == {":METRIC:", "#"}

ComposeLegends == {"Job:[{{job}}]", "", "Instance:[{{instance}}]"}

ComposeConfigs ==
    {[DefaultConfig EXCEPT !.Delimiter = dl,
                           !.CounterExprTmpl = Join(p, dl),
                           !.GaugeExprTmpl = Join(<<"", "">>, dl),
                           !.SummaryExprTmpl = Join(p, dl),
                           !.CounterLegend = lg,
                           !.GaugeLegend = "Job:[{{job}}]",
                           !.SummaryLegend = lg] :
        dl \in ComposeDelimiters, p \in TemplatePieces, lg \in ComposeLegends}

ComposeNames ==
    {"http_requests_total", "_juniper_metric", "node_memory_usage",
     "_interfaces_counters_in_octets", "_interfaces_counters_errors"}

ComposeTypes == {"counter", "gauge", "summary", "unknown"}

ComposeSuffixes == {"", "_total", "_bucket"}

ComposeLabelSets ==
    {{}, {"job", "instance"}, {"zone", "device", "_interfaces_interface__name"},
     {"_components_component__name", "job"}}

ComposeVendors == {"", "juniper"}

ComposeMetrics ==
    {SetVendor(New(n, "", l, t, sf, ""), v) :
        n \in ComposeNames, l \in ComposeLabelSets, t \in ComposeTypes,
        sf \in ComposeSuffixes, v \in ComposeVendors}

InitCompose ==
    /\ cfg \in ComposeConfigs
    /\ qmetric \in ComposeMetrics
    /\ qresult = NoResult
    /\ registry = NewRegistry
    /\ nEntries = 0
    /\ last = [op |-> "none", name |-> ""]
    /\ pc = "compose"
    /\ panels = <<>>
    /\ heap = <<>> /\ filtered = 0
    /\ builder = NoBuilder

\* queryBuilder.BuildQuery(metric)
ComposeQuery ==
    /\ pc = "compose" /\ qresult.op = "none"
    /\ qresult' = [op |-> "query", value |-> BuildQuery(qmetric, cfg)]
    /\ UNCHANGED <<cfg, registry, nEntries, last, pc, panels, qmetric, heap, filtered, builder>>

\* queryBuilder.GetLegend(metric)
ComposeLegend ==
    /\ pc = "compose" /\ qresult.op = "none"
    /\ qresult' = [op |-> "legend", value |-> GetLegend(qmetric, cfg)]
    /\ UNCHANGED <<cfg, registry, nEntries, last, pc, panels, qmetric, heap, filtered, builder>>

NextCompose == ComposeQuery \/ ComposeLegend

SpecCompose == InitCompose /\ [][NextCompose]_vars

-----------------------------------------------------------------------------
(***************************************************************************)
(* The Panel Factory and the Alert Heuristic on one metric.                *)
(***************************************************************************)

\* Override strings: none, known kinds, and one that is no kind.
PanelOverrides == {"", "table", "pie"}

VisualizationConfigs ==
    {Nil} \cup
    [CounterType : {"", "stat", "pie"}, GaugeType : {"", "bargauge"}, SummaryType : {""},
     DefaultType : PanelOverrides,
     UseStatForGauges : BOOLEAN, UseHeatmapForHistograms : BOOLEAN]

PanelConfigs ==
    {[DefaultConfig EXCEPT !.Gauges = g, !.GenerateAlerts = a, !.Visualizations = v] :
        g \in BOOLEAN, a \in BOOLEAN, v \in VisualizationConfigs}

PanelNames ==
    {"http_requests_errors_total", "node_memory_usage", "node_cpu_mem",
     "disk_io_time", "login_fail", "up"}

PanelTypes == {"counter", "gauge", "summary", "untyped"}

PanelSuffixes == {"", "_bucket"}

PanelLabelSets == {{}, {"job"}, {"instance", "job"}}

PanelMetrics ==
    {New(n, "", l, t, sf, "short") :
        n \in PanelNames, l \in PanelLabelSets, t \in PanelTypes, sf \in PanelSuffixes}

InitPanel ==
    /\ cfg \in PanelConfigs
    /\ qmetric \in PanelMetrics
    /\ qresult = NoResult
    /\ registry = NewRegistry
    /\ nEntries = 0
    /\ last = [op |-> "none", name |-> ""]
    /\ pc = "panel"
    /\ panels = <<>>
    /\ heap = <<>> /\ filtered = 0
    /\ builder = NoBuilder

\* generateAlertThreshold(metric)
AlertThreshold ==
    /\ pc = "panel" /\ qresult.op = "none"
    /\ qresult' = [op |-> "threshold", value |-> generateAlertThreshold(qmetric)]
    /\ UNCHANGED <<cfg, registry, nEntries, last, pc, panels, qmetric, heap, filtered, builder>>

\* createPanelForMetric(metric, cfg, queryBuilder)
CreatePanel ==
    /\ pc = "panel" /\ qresult.op = "none"
    /\ panels' = <<createPanelForMetric(qmetric, cfg)>>
    /\ qresult' = [op |-> "panel", value |-> ""]
    /\ UNCHANGED <<cfg, registry, nEntries, last, pc, qmetric, heap, filtered, builder>>

NextPanel == AlertThreshold \/ CreatePanel

SpecPanel == InitPanel /\ [][NextPanel]_vars

-----------------------------------------------------------------------------
(***************************************************************************)
(* Filtered views of a registry.                                           *)
(***************************************************************************)

FilterMetrics ==
    {SetVendor(New("prefix_metric1", "", {}, "", "", ""), ""),
     SetVendor(New("prefix_metric2", "", {}, "", "", ""), "cisco"),
     SetVendor(New("other_metric", "", {}, "", "", ""), "juniper")}

\* The source registries: one Set per metric of a subset.
SourceRegistries ==
    {[n \in {m.name : m \in S} |-> CHOOSE m \in S : m.name = n] : S \in SUBSET FilterMetrics}

\* The predicates handed to Filter, by name.
FilterPredicates == {"prefix", "unlabelled", "none"}

Accepts(predicate, name, metric) ==
    CASE predicate = "prefix" -> Len(name) >= 7 /\ SubSeq(name, 1, 7) = "prefix_"
      [] predicate = "unlabelled" -> LabelCount(metric) = 0
      [] OTHER -> FALSE

FilterVendors == {"", "cisco", "arista"}

\* What a later Set stores in the filtered registry.
ViewSets ==
    {[name |-> "prefix_metric1", metric |-> New("prefix_metric1", "changed", {}, "gauge", "", "")],
     [name |-> "new_metric", metric |-> New("new_metric", "", {}, "", "", "")]}

InitFilter ==
    /\ cfg = DefaultConfig
    /\ heap \in {<<r>> : r \in SourceRegistries}
    /\ filtered = 0
    /\ builder = NoBuilder
    /\ registry = NewRegistry
    /\ nEntries = 0
    /\ last = [op |-> "none", name |-> ""]
    /\ pc = "filter"
    /\ panels = <<>>
    /\ qmetric = NoMetric
    /\ qresult = NoResult

\* filtered := registry.Filter(fn)
FilterView(predicate) ==
    /\ pc = "filter" /\ filtered = 0
    /\ LET res == FilterRef(heap, 1, [n \in DOMAIN heap[1] |-> Accepts(predicate, n, heap[1][n])])
       IN  heap' = res.heap /\ filtered' = res.ref
    /\ last' = [op |-> "filter", name |-> predicate]
    /\ UNCHANGED <<cfg, registry, nEntries, pc, panels, qmetric, qresult, builder>>

\* filtered := registry.FilterByVendor(vendor)
FilterViewByVendor(vendor) ==
    /\ pc = "filter" /\ filtered = 0
    /\ LET res == FilterByVendorRef(heap, 1, vendor)
       IN  heap' = res.heap /\ filtered' = res.ref
    /\ last' = [op |-> "filterByVendor", name |-> vendor]
    /\ UNCHANGED <<cfg, registry, nEntries, pc, panels, qmetric, qresult, builder>>

\* filtered.Set(name, metric)
SetOnView(name, metric) ==
    /\ pc = "filter" /\ filtered # 0 /\ nEntries < MaxEntries
    /\ heap' = SetRef(heap, filtered, name, metric)
    /\ nEntries' = nEntries + 1
    /\ last' = [op |-> "set", name |-> name]
    /\ UNCHANGED <<cfg, registry, filtered, pc, panels, qmetric, qresult, builder>>

NextFilter ==
    \/ \E predicate \in FilterPredicates : FilterView(predicate)
    \/ \E vendor \in FilterVendors : FilterViewByVendor(vendor)
    \/ \E s \in ViewSets : SetOnView(s.name, s.metric)

SpecFilter == InitFilter /\ [][NextFilter]_vars

-----------------------------------------------------------------------------
(***************************************************************************)
(* Vendor classification of one metric: detectVendorPrefix, then the       *)
(* enrichment of the detected vendor.                                      *)
(***************************************************************************)

ClassifyNames ==
    {"up", "acme_disk_free", "cisco_route_entries", "cisco_interface_errors",
     "juniper_bgp_peers", "Juniper_bgp_peers", "juniper_error_pps",
     "juniper_discard_total", "juniper_interface_errors",
     "_components_cpu_utilization_instant", "_components_instantaneous_power",
     "_interfaces_counters_in_errors"}

ClassifyHelps == {"", "Generated JTIMON Metric"}

ClassifyTypes == {"counter", "gauge"}

\* Known and custom prefix lists; a list may hold a prefix of another.
ClassifyPrefixes ==
    {[known |-> <<"juniper_", "cisco_", "cisco_route_">>, custom |-> <<"acme_", "acme_disk_">>],
     [known |-> <<"cisco_route_", "cisco_">>, custom |-> <<"juniper_", "up">>]}

ClassifyConfigs ==
    {[DefaultConfig EXCEPT !.VendorConfig =
        [Enabled |-> TRUE, KnownPrefixes |-> px.known, CustomPrefixes |-> px.custom,
         JuniperEnabled |-> TRUE, CiscoEnabled |-> TRUE, GroupByVendor |-> FALSE]] :
        px \in ClassifyPrefixes}

\* The metric of a series entry before classification.
ClassifyMetrics ==
    {New(n, h, {}, t, "", "short") :
        n \in ClassifyNames, h \in ClassifyHelps, t \in ClassifyTypes}

InitClassify ==
    /\ cfg \in ClassifyConfigs
    /\ qmetric \in ClassifyMetrics
    /\ qresult = NoResult
    /\ registry = NewRegistry
    /\ nEntries = 0
    /\ last = [op |-> "none", name |-> ""]
    /\ pc = "classify"
    /\ panels = <<>>
    /\ heap = <<>> /\ filtered = 0
    /\ builder = NoBuilder

\* detectVendorPrefix(metric, knownPrefixes, customPrefixes)
DetectVendorPrefix ==
    /\ pc = "classify"
    /\ qresult' = [op |-> "detect",
                   value |-> detectVendorPrefix(qmetric, cfg.VendorConfig.KnownPrefixes,
                                                cfg.VendorConfig.CustomPrefixes)]
    /\ pc' = "detected"
    /\ UNCHANGED <<cfg, registry, nEntries, last, panels, qmetric, heap, filtered, builder>>

\* if detectJuniper && metric.Vendor() == "juniper" { parseJuniperMetric(metric) }
ParseJuniperMetric ==
    /\ pc = "detected"
    /\ cfg.VendorConfig.JuniperEnabled /\ qresult.value.vendor = "juniper"
    /\ qresult' = [op |-> "juniper", value |-> parseJuniperMetric(qresult.value)]
    /\ pc' = "enriched"
    /\ UNCHANGED <<cfg, registry, nEntries, last, panels, qmetric, heap, filtered, builder>>

\* if detectCisco && metric.Vendor() == "cisco" { parseCiscoMetric(metric) }
ParseCiscoMetric ==
    /\ pc = "detected"
    /\ cfg.VendorConfig.CiscoEnabled /\ qresult.value.vendor = "cisco"
    /\ qresult' = [op |-> "cisco", value |-> parseCiscoMetric(qresult.value)]
    /\ pc' = "enriched"
    /\ UNCHANGED <<cfg, registry, nEntries, last, panels, qmetric, heap, filtered, builder>>

NextClassify == DetectVendorPrefix \/ ParseJuniperMetric \/ ParseCiscoMetric

SpecClassify == InitClassify /\ [][NextClassify]_vars

-----------------------------------------------------------------------------
(***************************************************************************)
(* A PromQLBuilder under a bounded number of calls, built at any point.    *)
(***************************************************************************)

BuilderMetrics == {"test_metric", "http_requests_total"}

BuilderSelectors == {<<"job", "api-server">>, <<"instance", "localhost:9090">>}

\* Function names with their formatted arguments.
BuilderFunctions == {<<"sum", <<>>>>, <<"avg", <<>>>>, <<"histogram_quantile", <<"0.95">>>>}

BuilderDurations == {"5m"}

BuilderGroupings == {<<"instance">>, <<"method", "instance">>}

BuilderOffsets == {"1h"}

InitBuilder ==
    /\ builder \in {NewPromQLBuilder(m) : m \in BuilderMetrics}
    /\ cfg = DefaultConfig
    /\ qmetric = NoMetric
    /\ qresult = NoResult
    /\ registry = NewRegistry
    /\ nEntries = 0
    /\ last = [op |-> "none", name |-> ""]
    /\ pc = "builder"
    /\ panels = <<>>
    /\ heap = <<>> /\ filtered = 0

\* One chained call on the builder.
BuilderCall(b, op) ==
    /\ pc = "builder" /\ nEntries < MaxEntries
    /\ builder' = b
    /\ nEntries' = nEntries + 1
    /\ last' = [op |-> op, name |-> ""]
    /\ qresult' = NoResult
    /\ UNCHANGED <<cfg, registry, pc, panels, qmetric, heap, filtered>>

CallWithLabel(key, value) == BuilderCall(WithLabel(builder, key, value), "WithLabel")

CallWithFunction(fn, args) == BuilderCall(WithFunction(builder, fn, args), "WithFunction")

CallWithRate(duration) == BuilderCall(WithRate(builder, duration), "WithRate")

CallWithGroupBy(labels) == BuilderCall(WithGroupBy(builder, labels), "WithGroupBy")

CallWithOffset(offset) == BuilderCall(WithOffset(builder, offset), "WithOffset")

\* query := builder.Build()
CallBuild ==
    /\ pc = "builder" /\ qresult.op = "none"
    /\ \E order \in Perms(DOMAIN builder.selectors) :
          qresult' = [op |-> "build", value |-> Build(builder, order)]
    /\ UNCHANGED <<cfg, registry, nEntries, last, pc, panels, qmetric, heap, filtered,
                   builder>>

NextBuilder ==
    \/ \E sel \in BuilderSelectors : CallWithLabel(sel[1], sel[2])
    \/ \E f \in BuilderFunctions : CallWithFunction(f[1], f[2])
    \/ \E duration \in BuilderDurations : CallWithRate(duration)
    \/ \E labels \in BuilderGroupings : CallWithGroupBy(labels)
    \/ \E offset \in BuilderOffsets : CallWithOffset(offset)
    \/ CallBuild

SpecBuilder == InitBuilder /\ [][NextBuilder]_vars

-----------------------------------------------------------------------------
(***************************************************************************)
(* Properties.                                                             *)
(***************************************************************************)

\* The strategy of the finished run.
Done(strategy) == pc = "done" /\ strategyOf(registry, cfg) = strategy

\* The registry key a series entry name maps to.
KeyOf(seriesName) == stripSuffix(seriesName)

\* C1: in the flat layout the panel of metric i (0-indexed) has x = 0 when i
\* is even and x = 12 when i is odd, panels 2k and 2k+1 share their y, and y
\* grows from one pair to the next.
C1_FlatTwoPerRow ==
    Done("standard") =>
        \A i \in 1..Len(panels) :
            /\ panels[i].GridPos.X = (IF (i - 1) % 2 = 0 THEN 0 ELSE 12)
            /\ (i - 1) % 2 = 1 => panels[i].GridPos.Y = panels[i - 1].GridPos.Y
            /\ ((i - 1) % 2 = 0 /\ i > 2) => panels[i].GridPos.Y > panels[i - 2].GridPos.Y

\* C2: after Generate, under every strategy and every panels-per-row value,
\* every panel lies inside the 24-column grid: x >= 0 and x + w <= 24.
C2_PanelsInsideGrid ==
    pc = "done" =>
        \A i \in 1..Len(panels) :
            panels[i].GridPos.X >= 0 /\ panels[i].GridPos.X + panels[i].GridPos.W <= 24

\* The fields of a Metric other than the given one are equal in m1 and m2.
SameExcept(m1, m2, field) ==
    \A f \in DOMAIN m1 \ {field} : m1[f] = m2[f]

\* C3: a HELP or TYPE entry that arrives right after a series entry for the
\* same name updates the Metric in place: only its help (HELP) or its type
\* (TYPE) changes; labels, suffix, unit and classification stay.
C3_MetadataAppliedInPlace ==
    [][(/\ last.op = "series"
        /\ last'.op \in {"help", "type"}
        /\ KeyOf(last.name) = last'.name)
       => /\ last'.name \in DOMAIN registry'
          /\ SameExcept(registry[last'.name], registry'[last'.name],
                        IF last'.op = "help" THEN "help" ELSE "mtype")]_vars

\* C4: the label set of every Metric only grows: after any single entry the
\* label set of each Metric already in the registry is a superset of what
\* it was before.
C4_LabelsOnlyGrow ==
    [][\A n \in DOMAIN registry :
          /\ n \in DOMAIN registry'
          /\ registry[n].labels \subseteq registry'[n].labels]_vars

\* C5: a series entry whose metric name is empty or missing is skipped: the
\* registry after it is the registry before it.
C5_EmptyNameSkipped ==
    [][(last'.op = "series" /\ last'.name = "" /\ nEntries' = nEntries + 1)
       => registry' = registry]_vars

\* The fallback legend configured for the type of a metric.
FallbackOf(metric, c) ==
    LET configured == IF metric.mtype = "counter" THEN c.CounterLegend
                      ELSE IF metric.mtype = "gauge" THEN c.GaugeLegend
                      ELSE IF metric.mtype = "summary" THEN c.SummaryLegend
                      ELSE ""
    IN  IF configured # "" THEN configured ELSE "Job:[{{job}}]"

LegendOfUnlabelled == qresult.op = "legend" /\ qmetric.labels = {}

\* C6 (as stated): for every metric with an empty label set, of any type and
\* any vendor, GetLegend returns the fallback legend of the metric's type.
C6_UnlabelledGetsFallback ==
    LegendOfUnlabelled => qresult.value = FallbackOf(qmetric, cfg)

\* C6 (amended): for every metric with an empty label set GetLegend returns
\* the fallback legend of the metric's type, except a structured-telemetry
\* metric (vendor juniper, name starting with "_"), which gets
\* "Device:[{{device}}]".
C6_UnlabelledLegend ==
    LegendOfUnlabelled =>
        qresult.value = (IF isJtimon(qmetric) THEN "Device:[{{device}}]"
                         ELSE FallbackOf(qmetric, cfg))

C6_Witness ==
    /\ LegendOfUnlabelled
    /\ ~isJtimon(qmetric)
    /\ qmetric.mtype = "counter"
    /\ cfg.CounterLegend = "Instance:[{{instance}}]"
    /\ qresult.value = "Instance:[{{instance}}]"

\* s is strictly ascending by name.
AscendingMetrics(s) ==
    \A i, j \in 1..Len(s) : i < j => StrLess(s[i].name, s[j].name)

\* C7: List returns every registry key exactly once in ascending order, and
\* ForEach, ListByType and ListByVendor visit the metrics in that order.
C7_ListSorted ==
    LET list == List(registry)
        each == ForEach(registry)
    IN  /\ Len(list) = Cardinality(DOMAIN registry)
        /\ {list[i] : i \in 1..Len(list)} = DOMAIN registry
        /\ \A i, j \in 1..Len(list) : i < j => StrLess(list[i], list[j])
        /\ Len(each) = Len(list)
        /\ \A i \in 1..Len(list) : each[i] = registry[list[i]]
        /\ \A t \in {registry[k].mtype : k \in DOMAIN registry} :
              LET byType == ListByType(registry, t)
              IN  /\ AscendingMetrics(byType)
                  /\ {byType[i] : i \in 1..Len(byType)}
                       = {registry[k] : k \in {n \in DOMAIN registry : registry[n].mtype = t}}
        /\ \A v \in {registry[k].vendor : k \in DOMAIN registry} :
              LET byVendor == ListByVendor(registry, v)
              IN  /\ AscendingMetrics(byVendor)
                  /\ {byVendor[i] : i \in 1..Len(byVendor)}
                       = {registry[k] : k \in {n \in DOMAIN registry : registry[n].vendor = v}}

\* Three metrics, the last one inserted sorting first, two of one vendor.
C7_Witness ==
    /\ nEntries = 3 /\ Count(registry) = 3
    /\ last = [op |-> "series", name |-> "acme_disk"]
    /\ List(registry)[1] = "acme_disk"
    /\ "up" \in DOMAIN registry
    /\ Len(ListByVendor(registry, "")) = 2

\* The titles of the vendor row-headers, in panel order.
VendorRowTitles ==
    LET rows == SelectSeq(panels, LAMBDA q : q.Type = "row"
                                             /\ q.Description = "Metrics for " \o q.Title)
    IN  [i \in 1..Len(rows) |-> rows[i].Title]

IsGeneralRow(q) == q.Type = "row" /\ q.Title = "General Metrics"

IsVendorRow(q) == q.Type = "row" /\ q.Description = "Metrics for " \o q.Title

\* The vendor codes that have at least one metric.
VendorCodes == {registry[k].vendor : k \in DOMAIN registry} \ {""}

\* C8: in the vendor-grouped layout the "General Metrics" row-header, when
\* present, comes before every vendor row-header, and the vendor row-headers
\* appear in ascending order of vendor code, exactly one per vendor that has
\* at least one metric.
C8_VendorRowOrder ==
    Done("vendor") =>
        LET codes == SortStrings(VendorCodes)
        IN  /\ VendorRowTitles = [i \in 1..Len(codes) |-> vendorTitleOf(codes[i])]
            /\ \A i, j \in 1..Len(panels) :
                  (IsGeneralRow(panels[i]) /\ IsVendorRow(panels[j])) => i < j
            /\ \A i, j \in 1..Len(codes) : i < j => StrLess(codes[i], codes[j])

\* General metrics and two vendors whose titles sort against their codes.
C8_Witness ==
    /\ Done("vendor")
    /\ VendorCodes = {"acme", "cisco"}
    /\ \E i \in 1..Len(panels) : IsGeneralRow(panels[i])
    /\ VendorRowTitles = <<"acme", "Cisco Systems">>

\* The classification of a Metric.
Classification(m) == <<m.vendor, m.subsystem, m.category, m.unit, m.displayName>>

\* C9: classification is idempotent: a second series entry for the same
\* name, under the same configuration, leaves vendor, subsystem, category,
\* unit and displayName as the first one set them.
C9_ClassificationIdempotent ==
    [][(/\ last.op = "series" /\ last'.op = "series"
        /\ nEntries' = nEntries + 1
        /\ KeyOf(last.name) = KeyOf(last'.name))
       => Classification(registry'[KeyOf(last'.name)])
            = Classification(registry[KeyOf(last.name)])]_vars

\* A structured-telemetry metric classified twice.
C9_Witness ==
    /\ nEntries = 2 /\ Count(registry) = 1
    /\ last = [op |-> "series", name |-> "_interfaces_in_errors_instant"]
    /\ registry[KeyOf(last.name)].vendor = "juniper"
    /\ registry[KeyOf(last.name)].category # ""
    /\ registry[KeyOf(last.name)].displayName # ""

\* The name substituted into the template of a metric's type.
EffectiveName(metric) ==
    IF metric.mtype = "summary" THEN metric.name ELSE metric.name \o metric.suffix

TemplateOf(metric, c) ==
    IF metric.mtype = "counter" THEN c.CounterExprTmpl
    ELSE IF metric.mtype = "gauge" THEN c.GaugeExprTmpl
    ELSE c.SummaryExprTmpl

\* C10: outside the vendor override path BuildQuery returns the template of
\* the metric's type with every occurrence of the delimiter replaced by
\* name+suffix (counter, gauge) or name (summary), and name+suffix with no
\* template for any other type.
C10_GenericQuery ==
    (qresult.op = "query" /\ ~isJtimon(qmetric)) =>
        IF qmetric.mtype \in {"counter", "gauge", "summary"}
        THEN \E p \in TemplatePieces :
                /\ Join(p, cfg.Delimiter) = TemplateOf(qmetric, cfg)
                /\ qresult.value = Join(p, EffectiveName(qmetric))
        ELSE qresult.value = qmetric.name \o qmetric.suffix

\* The counter http_requests_total with suffix _total under the default
\* template.
C10_Witness ==
    /\ qresult.op = "query"
    /\ qmetric.name = "http_requests_total" /\ qmetric.suffix = "_total"
    /\ qmetric.mtype = "counter" /\ qmetric.vendor = ""
    /\ cfg.CounterExprTmpl = "sum(rate(:METRIC: [1m]))" /\ cfg.Delimiter = ":METRIC:"
    /\ qresult.value = "sum(rate(http_requests_total_total [1m]))"

\* The threshold table of the alert heuristic, in tenths: what a type and a
\* name give.
ThresholdTable(mtype, name) ==
    LET has(cue) == Contains(name, cue)
    IN  CASE mtype = "counter" /\ (has("error") \/ has("fail")) -> <<1, 10>>
          [] mtype = "gauge" /\ has("cpu") -> <<800, 950>>
          [] mtype = "gauge" /\ ~has("cpu") /\ (has("memory") \/ has("mem")) -> <<850, 950>>
          [] mtype = "gauge" /\ ~has("cpu") /\ ~has("mem") /\ has("disk") -> <<800, 900>>
          [] mtype = "summary" /\ (has("latency") \/ has("duration") \/ has("time"))
               -> <<10000, 20000>>
          [] OTHER -> <<>>

\* C11: generateAlertThreshold depends only on the type and the name:
\* counter with error/fail gives (0.1, 1.0, notify); gauge gives (80, 95)
\* for cpu, else (85, 95) for memory/mem, else (80, 90) for disk; summary
\* with latency/duration/time gives (1000, 2000); nothing otherwise.
C11_AlertThresholdTable ==
    qresult.op = "threshold" =>
        LET expected == ThresholdTable(qmetric.mtype, qmetric.name)
        IN  IF expected = <<>> THEN qresult.value = Nil
            ELSE qresult.value = [Metric |-> qmetric.name, Warning |-> expected[1],
                                  Error |-> expected[2], Notify |-> TRUE]

\* The gauge node_memory_usage gets (85, 95).
C11_Witness ==
    /\ qresult.op = "threshold"
    /\ qmetric.name = "node_memory_usage" /\ qmetric.mtype = "gauge"
    /\ qmetric.suffix = "_bucket" /\ qmetric.labels = {"job"}
    /\ qresult.value.Warning = 850 /\ qresult.value.Error = 950

\* Vendor grouping applies: it is enabled and the registry has a vendor.
VendorGroupingApplies ==
    /\ cfg.VendorConfig # Nil /\ cfg.VendorConfig.Enabled /\ cfg.VendorConfig.GroupByVendor
    /\ VendorCodes # {}

GroupLabelsConfigured ==
    cfg.LabelGrouping # Nil /\ Len(cfg.LabelGrouping.GroupByLabels) > 0

\* The finished dashboard is the output of one layout.
IsVendorGrouped ==
    \E catOrder \in CategoryOrders(registry) :
        panels = generateWithVendorGroups(<<>>, registry, cfg, catOrder)

IsLabelGrouped ==
    \E order \in GroupOrders(registry, cfg) :
        panels = generateWithLabelGroups(<<>>, registry, cfg, order)

IsFlat == panels = generateStandard(<<>>, registry, cfg)

C13_LayoutReproducible ==
    [][(pc = "ingest" /\ pc' = "done")
       => \A groupOrder \in GroupOrders(registry, cfg) :
            \A catOrder \in CategoryOrders(registry) :
               panels' = Generate(registry, cfg, groupOrder, catOrder)]_vars

\* The entries of registry map r that the last filter call accepts.
AcceptedBy(call, r) ==
    LET keep == {n \in DOMAIN r :
                    IF call.op = "filter" THEN Accepts(call.name, n, r[n])
                    ELSE r[n].vendor = call.name}
    IN  [n \in keep |-> r[n]]

\* C14: Filter and FilterByVendor return a new registry holding exactly the
\* source entries that satisfy the predicate and leave the source as it was;
\* a later Set on the returned registry does not change the source.
C14_FilterIsNewRegistry ==
    [][/\ (filtered = 0 /\ filtered' # 0)
          => /\ filtered' # 1
             /\ heap'[filtered'] = AcceptedBy(last', heap[1])
             /\ heap'[1] = heap[1]
       /\ (filtered # 0 /\ last'.op = "set" /\ nEntries' = nEntries + 1)
          => heap'[1] = heap[1]]_vars

\* A filtered registry holding some but not all source entries, then changed
\* by a Set on a key the source also has.
C14_Witness ==
    /\ filtered # 0 /\ last = [op |-> "set", name |-> "prefix_metric1"]
    /\ Count(heap[1]) = 3
    /\ "other_metric" \notin DOMAIN heap[filtered]
    /\ heap[filtered]["prefix_metric1"].help = "changed"
    /\ heap[1]["prefix_metric1"].help = ""

\* C15: a TYPE entry for a name that has no Metric yet creates the Metric:
\* right after the entry the registry has a Metric for that name, carrying a
\* declared type.
C15_TypeCreatesMetric ==
    [][(/\ last'.op = "type" /\ nEntries' = nEntries + 1
        /\ last'.name \notin DOMAIN registry)
       => /\ last'.name \in DOMAIN registry'
          /\ registry'[last'.name].mtype \in TypeStrings]_vars

\* name ends in a recognized suffix.
HasRecognizedSuffix(name) ==
    HasSuffix(name, "_bucket") \/ HasSuffix(name, "_sum") \/ HasSuffix(name, "_count")

\* C16: at every point of ingestion no Metric of the registry has a name (or
\* key) ending in _bucket, _sum or _count, whether a HELP entry or a series
\* entry created it.
C16_NamesHaveSuffixStripped ==
    \A n \in DOMAIN registry :
        ~HasRecognizedSuffix(n) /\ ~HasRecognizedSuffix(registry[n].name)

\* The panel createPanelForMetric returned.
CreatedPanel == panels[1]

\* C17: createPanelForMetric attaches an alert iff alert generation is
\* enabled and the heuristic yields a threshold; and then every condition of
\* the alert has a panel target with its reference id whose expression is
\* the composed query expression.
C17_AlertAttachedWithTargets ==
    qresult.op = "panel" =>
        /\ CreatedPanel.Alert # Nil
             <=> (cfg.GenerateAlerts /\ ThresholdTable(qmetric.mtype, qmetric.name) # <<>>)
        /\ CreatedPanel.Alert # Nil =>
             \A i \in 1..Len(CreatedPanel.Alert.Conditions) :
                \E k \in 1..Len(CreatedPanel.Targets) :
                   /\ CreatedPanel.Targets[k].RefID
                        = CreatedPanel.Alert.Conditions[i].Target.RefID
                   /\ CreatedPanel.Targets[k].Expr = BuildQuery(qmetric, cfg)

\* A counter with an error cue: critical and warning conditions A and B, and
\* a target for each.
C17_Witness ==
    /\ qresult.op = "panel"
    /\ qmetric.name = "http_requests_errors_total" /\ qmetric.mtype = "counter"
    /\ CreatedPanel.Alert # Nil
    /\ Len(CreatedPanel.Alert.Conditions) = 2
    /\ Len(CreatedPanel.Targets) = 2
    /\ CreatedPanel.Targets[2].RefID = "B"
    /\ CreatedPanel.Targets[2].Expr = "sum(rate(http_requests_errors_total [1m]))"

\* The override configured for the type of a metric ("" when none).
PerTypeOverride(metric, c) ==
    IF c.Visualizations = Nil THEN ""
    ELSE IF metric.mtype = "counter" THEN c.Visualizations.CounterType
    ELSE IF metric.mtype = "gauge" THEN c.Visualizations.GaugeType
    ELSE IF metric.mtype = "summary" THEN c.Visualizations.SummaryType
    ELSE ""

\* The rule table of the panel kind.
KindRuleTable(metric, c) ==
    LET v == c.Visualizations
    IN  CASE metric.mtype = "gauge" /\ c.Gauges -> "gauge"
          [] metric.mtype = "gauge" /\ ~c.Gauges /\ v # Nil /\ v.UseStatForGauges
               /\ Cardinality(metric.labels) <= 1 -> "stat"
          [] metric.mtype = "summary" /\ metric.suffix = "_bucket"
               /\ v # Nil /\ v.UseHeatmapForHistograms -> "heatmap"
          [] OTHER -> "graph"

\* C18 (as stated): the panel kind is the per-type override when one is
\* configured for the metric's type, and otherwise the rule table: graph for
\* a counter; gauge, else stat, else graph for a gauge; heatmap or graph for
\* a summary.
C18_KindByOverrideOrTable ==
    qresult.op = "panel" =>
        CreatedPanel.Type = (IF PerTypeOverride(qmetric, cfg) # ""
                             THEN PerTypeOverride(qmetric, cfg)
                             ELSE KindRuleTable(qmetric, cfg))

\* C18 (amended): the panel kind is the per-type override when one is
\* configured for the metric's type; otherwise the configured default kind
\* when there is one; otherwise the rule table.
C18_KindByOverrideDefaultOrTable ==
    qresult.op = "panel" =>
        CreatedPanel.Type =
            (IF PerTypeOverride(qmetric, cfg) # "" THEN PerTypeOverride(qmetric, cfg)
             ELSE IF cfg.Visualizations # Nil /\ cfg.Visualizations.DefaultType # ""
                  THEN cfg.Visualizations.DefaultType
             ELSE KindRuleTable(qmetric, cfg))

\* A gauge with one label, no override and no default kind, stat-for-gauges
\* on and gauge rendering off: a stat panel.
C18_Witness ==
    /\ qresult.op = "panel"
    /\ qmetric.mtype = "gauge" /\ qmetric.labels = {"job"}
    /\ cfg.Visualizations # Nil /\ ~cfg.Gauges
    /\ cfg.Visualizations.GaugeType = "" /\ cfg.Visualizations.DefaultType = ""
    /\ cfg.Visualizations.UseStatForGauges
    /\ CreatedPanel.Type = "stat"

\* The kinds a panel can have.
KnownKinds == {"graph", "gauge", "stat", "table", "heatmap", "bargauge"}

\* C19: an override string that is no known kind does not reach the output:
\* the kind of the resulting panel is always a known kind.
C19_PanelKindIsKnown ==
    qresult.op = "panel" => CreatedPanel.Type \in KnownKinds

\* The clause of a label the metric has, and nothing for one it lacks.
ClauseIfPresent(metric, label) ==
    IF label \in metric.labels
    THEN <<label \o ":[{{" \o label \o "}}]">> ELSE <<>>

\* C20: for a structured-telemetry metric GetLegend emits one clause for each
\* of device, _interfaces_interface__name, _components_component__name that
\* the metric has, in that order, ignoring every other label, and the single
\* clause Device:[{{device}}] when it has none of the three.
C20_JtimonLegendPriority ==
    (qresult.op = "legend" /\ isJtimon(qmetric)) =>
        LET clauses == ClauseIfPresent(qmetric, "device")
                       \o ClauseIfPresent(qmetric, "_interfaces_interface__name")
                       \o ClauseIfPresent(qmetric, "_components_component__name")
        IN  qresult.value = (IF clauses = <<>> THEN "Device:[{{device}}]"
                             ELSE Join(clauses, " "))

\* device and the interface label, with one other label: device comes first
\* although it sorts last.
C20_Witness ==
    /\ qresult.op = "legend" /\ isJtimon(qmetric)
    /\ qmetric.labels = {"zone", "device", "_interfaces_interface__name"}
    /\ qresult.value
         = "device:[{{device}}] _interfaces_interface__name:[{{_interfaces_interface__name}}]"

\* The structured-telemetry rule of detectVendorPrefix.
IsTelemetry(metric) ==
    HasPrefix(metric.name, "_") \/ Contains(metric.help, "JTIMON Metric")

\* The prefixes of a list that the name starts with, ignoring letter case.
MatchingPrefixes(name, prefixes) ==
    {i \in 1..Len(prefixes) : HasPrefix(ToLower(name), prefixes[i])}

\* The least member of a non-empty set of indices.
Least(S) == CHOOSE i \in S : \A j \in S : i <= j

\* C21: detectVendorPrefix applies exactly one rule, first match wins: a
\* telemetry name or help text gives juniper and a result that does not
\* depend on the prefix lists; otherwise the first matching known prefix
\* gives the vendor (and a subsystem, no category); otherwise the first
\* matching custom prefix gives the vendor only; otherwise the vendor,
\* subsystem and category stay empty.
C21_OneRuleFirstMatch ==
    pc = "detected" =>
        LET m      == qmetric
            res    == qresult.value
            known  == cfg.VendorConfig.KnownPrefixes
            custom == cfg.VendorConfig.CustomPrefixes
            K      == MatchingPrefixes(m.name, known)
            U      == MatchingPrefixes(m.name, custom)
        IN  IF IsTelemetry(m)
            THEN /\ res.vendor = "juniper"
                 /\ res = detectVendorPrefix(m, <<>>, <<>>)
            ELSE IF K # {}
            THEN /\ res.vendor = TrimSuffix(known[Least(K)], "_")
                 /\ res = SetSubsystem(SetVendor(m, res.vendor), res.subsystem)
            ELSE IF U # {}
            THEN res = SetVendor(m, TrimSuffix(custom[Least(U)], "_"))
            ELSE res = m /\ res.vendor = "" /\ res.subsystem = "" /\ res.category = ""

\* A telemetry help text on a name that a known prefix also matches, and
\* a name matched by two known prefixes, have been classified.
C21_Witness ==
    /\ pc = "detected"
    /\ \/ /\ IsTelemetry(qmetric)
          /\ MatchingPrefixes(qmetric.name, cfg.VendorConfig.KnownPrefixes) # {}
          /\ qresult.value.subsystem = ""
       \/ /\ ~IsTelemetry(qmetric)
          /\ Cardinality(MatchingPrefixes(qmetric.name, cfg.VendorConfig.KnownPrefixes)) > 1

\* C23: known-prefix matching ignores letter case, and on a match the
\* vendor is the prefix without its trailing underscore and the subsystem
\* is the token of the name between the end of the prefix and the next
\* underscore.
C23_KnownPrefixIgnoresCase ==
    (pc = "detected" /\ ~IsTelemetry(qmetric)) =>
        LET name   == qmetric.name
            known  == cfg.VendorConfig.KnownPrefixes
            K      == MatchingPrefixes(name, known)
            prefix == known[Least(K)]
        IN  K # {} =>
              /\ qresult.value.vendor = TrimSuffix(prefix, "_")
              /\ qresult.value.subsystem =
                    FirstToken(SubSeq(name, Len(prefix) + 1, Len(name)))

\* C24: the enrichment of a telemetry (underscore-prefixed) name sets the
\* display name to the name without "_instant" exactly when "_instant" is
\* the trailing token, and to the unchanged name otherwise.
C24_DisplayNameDropsTrailingInstant ==
    (pc = "enriched" /\ qresult.op = "juniper" /\ HasPrefix(qmetric.name, "_")) =>
        qresult.value.displayName =
            IF HasSuffix(qmetric.name, "_instant")
            THEN TrimSuffix(qmetric.name, "_instant")
            ELSE qmetric.name

\* C27: the enrichment of a legacy-style (not underscore-prefixed) name
\* sets the category to "errors" for every counter whose name contains
\* "error" or "discard".
C27_LegacyErrorCountersCategorised ==
    (/\ pc = "enriched" /\ qresult.op = "juniper"
     /\ ~HasPrefix(qmetric.name, "_")
     /\ qmetric.mtype = "counter"
     /\ (Contains(qmetric.name, "error") \/ Contains(qmetric.name, "discard")))
    => qresult.value.category = "errors"

\* The name has the underscore-delimited token t.
HasToken(name, t) == Contains("_" \o name \o "_", "_" \o t \o "_")

CounterLikeTokens == {"in", "out", "frames", "drops", "errors", "packets"}

\* C26: for a telemetry metric BuildQuery ignores the type and the
\* templates: it returns rate(name[5m]) when the name carries the counters
\* marker together with any of in, out, frames, drops, errors, packets, and
\* the bare name in every other case.
C26_TelemetryQuery ==
    (pc = "compose" /\ qresult.op = "query" /\ isJtimon(qmetric)) =>
        qresult.value =
            IF /\ HasToken(qmetric.name, "counters")
               /\ \E t \in CounterLikeTokens : HasToken(qmetric.name, t)
            THEN "rate(" \o qmetric.name \o "[5m])"
            ELSE qmetric.name

\* The functions around a query, the first of the list outermost; a
\* function with arguments takes the query inside its parentheses, after
\* the arguments.
RECURSIVE Wrapped(_, _)
Wrapped(functions, query) ==
    IF functions = <<>> THEN query
    ELSE LET fn    == Head(functions)
             inner == Wrapped(Tail(functions), query)
         IN  IF HasSuffix(fn, ")")
             THEN SubSeq(fn, 1, Len(fn) - 1) \o "(" \o inner \o "))"
             ELSE fn \o "(" \o inner \o ")"

\* The selector clauses key="value" in some order, joined by commas.
SelectorTexts(selectors) ==
    {Join([i \in 1..Len(order) |->
              order[i] \o "=\"" \o selectors[order[i]] \o "\""], ",") :
        order \in Perms(DOMAIN selectors)}

\* C22: Build renders metric{selectors}, then [range] when a range is
\* set, then " offset o" when an offset is set, then wraps the functions
\* with the first function added outermost, then appends " by (l1,l2,...)"
\* with the group-by labels in the order they were added.
C22_BuildRendering ==
    qresult.op = "build" =>
        \E sel \in SelectorTexts(builder.selectors) :
            qresult.value =
                Wrapped(builder.functions,
                        builder.metric \o "{" \o sel \o "}"
                          \o (IF builder.timeRange # ""
                              THEN "[" \o builder.timeRange \o "]" ELSE "")
                          \o (IF builder.offset # ""
                              THEN " offset " \o builder.offset ELSE ""))
                \o (IF builder.groupBy # <<>>
                    THEN " by (" \o Join(builder.groupBy, ",") \o ")" ELSE "")

\* WithRate("5m") followed by WithFunction("sum") on test_metric has been
\* built.
C22_Witness ==
    /\ qresult.op = "build"
    /\ builder.functions = <<"rate", "sum">>
    /\ builder.timeRange = "5m"
    /\ qresult.value = "rate(sum(test_metric{}[5m]))"

\* strings.ToUpper on the first character.
Capitalized(s) ==
    IF s = "" THEN "" ELSE UpperChar(CharAt(s, 1)) \o SubSeq(s, 2, Len(s))

\* The title of the panel of a metric.
PanelTitleOf(m) == ReplaceAll(DisplayName(m), "_", " ")

\* The least index above i at which the sequence has a panel of set R of
\* indices, or one past the end.
NextIn(R, i, len) ==
    IF \E j \in R : j > i
    THEN CHOOSE j \in R : j > i /\ \A k \in R : k > i => j <= k
    ELSE len + 1

\* The panels of a vendor's section: after its row-header, up to the next
\* vendor row-header.
VendorSection(vendor) ==
    LET V == {i \in 1..Len(panels) : IsVendorRow(panels[i])}
        i == CHOOSE j \in V : panels[j].Title = vendorTitleOf(vendor)
    IN  SubSeq(panels, i + 1, NextIn(V, i, Len(panels)) - 1)

\* A section shows the metrics M under one sub-row-header per category
\* (label gives the category of each metric) iff there is more than one
\* category, and flat otherwise.
SectionByCategory(section, M, label) ==
    LET cats  == {label[k] : k \in M}
        R     == {i \in 1..Len(section) : section[i].Type = "row"}
        titles(K) == {PanelTitleOf(registry[k]) : k \in K}
        shows(block, K) ==
            /\ Len(block) = Cardinality(K)
            /\ {block[i].Title : i \in 1..Len(block)} = titles(K)
    IN  IF Cardinality(cats) > 1
        THEN /\ Cardinality(R) = Cardinality(cats)
             /\ 1 \in R
             /\ \A c \in cats :
                   \E i \in R :
                      /\ section[i].Title = Capitalized(c)
                      /\ shows(SubSeq(section, i + 1, NextIn(R, i, Len(section)) - 1),
                               {k \in M : label[k] = c})
        ELSE R = {} /\ shows(section, M)

\* The registry keys of a vendor's metrics.
VendorKeys(vendor) == {k \in DOMAIN registry : registry[k].vendor = vendor}

\* C25 as stated: a vendor's section has category sub-row-headers iff its
\* metrics carry more than one distinct category, one per category, titled
\* with the capitalized category and followed by exactly that category's
\* metrics; otherwise the metrics follow the vendor row-header directly.
C25_SubRowsPerCategory ==
    Done("vendor") =>
        \A v \in VendorCodes :
            SectionByCategory(VendorSection(v), VendorKeys(v),
                              [k \in VendorKeys(v) |-> registry[k].category])

\* C25, amended: the same, where a metric without a category counts as a
\* metric of the category "other".
C25_SubRowsPerCategoryOrOther ==
    Done("vendor") =>
        \A v \in VendorCodes :
            SectionByCategory(VendorSection(v), VendorKeys(v),
                              [k \in VendorKeys(v) |->
                                  IF registry[k].category = "" THEN "other"
                                  ELSE registry[k].category])

\* A vendor with two categories shown under two sub-row-headers, and a
\* vendor with one category shown flat.
C25_Witness ==
    /\ Done("vendor")
    /\ \E v \in VendorCodes :
          /\ Cardinality({registry[k].category : k \in VendorKeys(v)} \ {""}) > 1
          /\ Cardinality({i \in 1..Len(VendorSection(v)) :
                             VendorSection(v)[i].Type = "row"}) > 1
    /\ \E v \in VendorCodes :
          /\ Cardinality({registry[k].category : k \in VendorKeys(v)}) = 1
          /\ VendorSection(v) # <<>>
          /\ \A i \in 1..Len(VendorSection(v)) : VendorSection(v)[i].Type # "row"

\* C28: the panel at 0-indexed position k of the panel sequence has id
\* k + 1: ids are unique and run 1..N in display order, row-headers and
\* metric panels sharing one sequence.
C28_PanelIdsInDisplayOrder ==
    \A i \in 1..Len(panels) : panels[i].ID = i

\* A generated dashboard with a row-header between metric panels.
C28_Witness ==
    /\ pc = "done" /\ Len(panels) >= 4
    /\ \E i, j, k \in 1..Len(panels) :
          /\ i < j /\ j < k
          /\ panels[i].Type # "row" /\ panels[j].Type = "row" /\ panels[k].Type # "row"

\* The positions of the metric (non-row) panels.
MetricPanels == {i \in 1..Len(panels) : panels[i].Type # "row"}

\* C29: under every strategy Generate emits exactly one non-row panel per
\* registry metric: as many metric panels as Registry.Count, and every
\* metric shown by exactly one of them.
C29_OnePanelPerMetric ==
    pc = "done" =>
        /\ Cardinality(MetricPanels) = Count(registry)
        /\ \A k \in DOMAIN registry :
              Cardinality({i \in MetricPanels :
                             panels[i].Title = PanelTitleOf(registry[k])}) = 1

\* A registry of one general metric and two metrics of different vendors,
\* laid out by vendor.
C29_Witness ==
    /\ pc = "done" /\ Count(registry) = 3
    /\ strategyOf(registry, cfg) = "vendor"
    /\ Cardinality(VendorCodes) = 2
    /\ \E k \in DOMAIN registry : registry[k].vendor = ""

\* C30: no two panels of the generated sequence have the same (x, y) grid
\* origin, under every strategy and every panels-per-row value.
C30_DistinctOrigins ==
    pc = "done" =>
        \A i, j \in 1..Len(panels) :
            i # j => <<panels[i].GridPos.X, panels[i].GridPos.Y>>
                        # <<panels[j].GridPos.X, panels[j].GridPos.Y>>

====
